---- MODULE Spec2Model ----
(***************************************************************************)
(* A model of samplics' replicate-weight generator                         *)
(* (src/src/samplics/weighting/replicates.py, class ReplicateWeight).      *)
(*                                                                         *)
(* Python floats are modelled as exact rationals <<num, den>> in lowest    *)
(* terms with den > 0, so "equal" below means equal as real numbers.       *)
(* numpy arrays and pandas columns are sequences; a pandas frame is a      *)
(* sequence of row records that keep the row's index label (idx).          *)
(* The variance estimators that consume the replicates (the Taylor         *)
(* linearization estimator and the replicate variance) are modelled from   *)
(* their specification.                                                    *)
(***************************************************************************)
EXTENDS Integers, Sequences, FiniteSets, TLC

(* ---------------- bounds of the model ---------------- *)
MaxUnits == 4
MaxStratum == 2
MaxPsu == 3
MaxWeight == 2
MaxReps == 2
MaxSeed == 1
RngMod == 4
MaxBrrStrata == 34
MaxValue == 1
MaxGap == 2
MaxCalls == 2
MaxLevel == 2
MaxStrata == 5

VARIABLES
    self,          \* the ReplicateWeight instance: a record of its attributes
    np_random,     \* numpy's global random state (np.random.seed / np.random.choice)
    units,         \* the caller's sample design: a sequence of [stratum, psu], one per unit
    call,          \* the arguments of the last call, op = "none" before any call
    result,        \* what the last call returned or raised
    est,           \* the variance estimates last computed from the sample
    other,         \* a second ReplicateWeight instance of the same process
    twin           \* a second run of the program, in a process of its own, that makes
                   \* the same calls on the generator: its instance, random state and result

vars == <<self, np_random, units, call, result, est, other, twin>>

(* ---------------- exact rational arithmetic (Python floats) ---------------- *)
Abs(x) == IF x < 0 THEN -x ELSE x

RECURSIVE Gcd(_, _)
Gcd(a, b) == IF b = 0 THEN a ELSE Gcd(b, a % b)

Q(n, d) ==
    LET g == Gcd(Abs(n), Abs(d))
        s == IF d < 0 THEN -1 ELSE 1
    IN  <<(s * n) \div g, (s * d) \div g>>

QInt(n) == <<n, 1>>
\* sums over the least common denominator and products with the common factors
\* cancelled first, so that the intermediate integers stay small
QAdd(a, b) ==
    Q(a[1] * (b[2] \div Gcd(a[2], b[2])) + b[1] * (a[2] \div Gcd(a[2], b[2])),
      (a[2] \div Gcd(a[2], b[2])) * b[2])
QSub(a, b) == QAdd(a, <<-b[1], b[2]>>)
QMul(a, b) ==
    Q((a[1] \div Gcd(Abs(a[1]), b[2])) * (b[1] \div Gcd(Abs(b[1]), a[2])),
      (a[2] \div Gcd(Abs(b[1]), a[2])) * (b[2] \div Gcd(Abs(a[1]), b[2])))
QDiv(a, b) == QMul(a, Q(b[2], b[1]))
QSq(a) == QMul(a, a)

RECURSIVE QSum(_)
QSum(s) == IF s = <<>> THEN QInt(0) ELSE QAdd(Head(s), QSum(Tail(s)))

RECURSIVE Sum(_)
Sum(s) == IF s = <<>> THEN 0 ELSE Head(s) + Sum(Tail(s))

(* ---------------- numpy / pandas helpers ---------------- *)
Range(s) == {s[i] : i \in DOMAIN s}

Min(S) == CHOOSE x \in S : \A y \in S : x <= y

\* np.unique(a): the sorted distinct values
RECURSIVE SortedSeq(_)
SortedSeq(S) == IF S = {} THEN <<>> ELSE <<Min(S)>> \o SortedSeq(S \ {Min(S)})

np_unique(a) == SortedSeq(Range(a))

\* the positions of a, in order, whose element satisfies Test
Where(a, Test(_)) == SelectSeq([i \in 1..Len(a) |-> i], LAMBDA i : Test(a[i]))

\* DataFrame.drop_duplicates(): the first occurrence of every row, in order
drop_duplicates(a) ==
    LET keep == SelectSeq([i \in 1..Len(a) |-> i],
                          LAMBDA i : \A j \in 1..(i - 1) : a[j] # a[i])
    IN  [k \in 1..Len(keep) |-> a[keep[k]]]

\* the position of key x in a sequence of distinct keys
IndexOf(a, x) == CHOOSE k \in 1..Len(a) : a[k] = x

RECURSIVE Flatten(_)
Flatten(ss) == IF ss = <<>> THEN <<>> ELSE Head(ss) \o Flatten(Tail(ss))

\* DataFrame.sort_values(by=stratum): the row labels in sorted order. numpy sorts
\* arrays of fewer than 17 elements by insertion, which keeps ties in order.
sort_values(strat) ==
    LET ss == np_unique(strat)
    IN  Flatten([k \in 1..Len(ss) |-> Where(strat, LAMBDA x : x = ss[k])])


\* an optional array argument: None, or the array
None == [given |-> FALSE, arr |-> <<>>]
Some(a) == [given |-> TRUE, arr |-> a]

\* what a method does: raises exc (with the attributes as they were left), or
\* returns val; rng is numpy's random state afterwards
Raise(gen, rng, e) == [exc |-> e, self |-> gen, rng |-> rng, val |-> <<>>]
Return(gen, rng, v) == [exc |-> "none", self |-> gen, rng |-> rng, val |-> v]

(* ---------------- numpy's global random generator ---------------- *)
\* A deterministic generator with a small state stands for the Mersenne twister:
\* the next state is a function of the state, a draw a function of the new state.
np_random_seed(seed) == seed % RngMod
rng_next(s) == (s + 1) % RngMod
rng_draw(s, n) == (3 * rng_next(s) + (rng_next(s) \div 2)) % n

RECURSIVE rng_after(_, _)
rng_after(s, count) == IF count = 0 THEN s ELSE rng_after(rng_next(s), count - 1)

\* np.random.choice(np.arange(n), size=(reps, size)): entry [rep][k], drawn row by row
np_random_choice(s, n, reps, size) ==
    [rep \in 1..reps |-> [k \in 1..size |->
        rng_draw(rng_after(s, (rep - 1) * size + (k - 1)), n)]]

(* ---------------- ReplicateWeight.__init__ ---------------- *)
\* random_seed is <<>> for None and <<s>> for the seed s
\* the attributes __init__ leaves on the instance
init_attributes(method, stratification, number_reps, fay_coef, random_seed) ==
    LET base == [method |-> method,
                 stratification |-> stratification,
                 attrs |-> {"method", "stratification", "number_psus", "number_strata",
                            "rep_coefs", "degree_of_freedom"},
                 number_reps |-> 0,
                 fay_coef |-> QInt(0),
                 number_psus |-> 0,
                 number_strata |-> 0,
                 rep_coefs |-> <<>>,
                 degree_of_freedom |-> 0,
                 random_seed |-> <<>>]
        m1 == IF method = "bootstrap"
              THEN [base EXCEPT !.number_reps = number_reps,
                                !.attrs = @ \cup {"number_reps"},
                                \* line 30; line 37 then resets it
                                !.rep_coefs = [g \in 1..number_reps |-> Q(1, number_reps)]]
              ELSE IF method = "brr"
              THEN [base EXCEPT !.number_reps = 0,
                                !.fay_coef = fay_coef,
                                !.attrs = @ \cup {"number_reps", "fay_coef"}]
              ELSE base
        m2 == [m1 EXCEPT !.number_psus = 0, !.number_strata = 0,
                         !.rep_coefs = <<>>, !.degree_of_freedom = 0]
    IN  IF random_seed # <<>>
        THEN [m2 EXCEPT !.random_seed = random_seed, !.attrs = @ \cup {"random_seed"}]
        ELSE m2

\* ReplicateWeight without line 41: the seed is kept and numpy is not seeded
ReplicateWeight_unseeded(method, stratification, number_reps, fay_coef, random_seed, rng) ==
    [self |-> init_attributes(method, stratification, number_reps, fay_coef, random_seed),
     rng |-> rng]

\* the instance, and numpy's global random state after the constructor: seeded
\* when a seed is given, else as it was
ReplicateWeight(method, stratification, number_reps, fay_coef, random_seed, rng) ==
    [self |-> init_attributes(method, stratification, number_reps, fay_coef, random_seed),
     rng |-> IF random_seed # <<>> THEN np_random_seed(random_seed[1]) ELSE rng]

(* ---------------- _degree_of_freedom ---------------- *)
\* formats.numpy_array(None) is a 0-d array, of size 1
array_size(a) == IF a.given THEN Len(a.arr) ELSE 1

degree_of_freedom(gen, weight, stratum, psu) ==
    IF array_size(stratum) <= 1
    THEN [gen EXCEPT !.degree_of_freedom = Cardinality(Range(psu)) - 1]
    ELSE IF Len(psu) > 1
    THEN [gen EXCEPT !.degree_of_freedom =
              Cardinality(Range(psu)) - Cardinality(Range(stratum.arr))]
    ELSE [gen EXCEPT !.degree_of_freedom = Len(weight)]

\* psu[stratum == s]
psu_of_stratum(psu, stratum, s) ==
    LET at == Where(stratum, LAMBDA x : x = s)
    IN  [k \in 1..Len(at) |-> psu[at[k]]]

(* ---------------- jackknife ---------------- *)
\* jkn_psus_replicates without "- np.identity(number_psus)": no PSU is deleted
jkn_psus_replicates_keep(number_psus) ==
    [i \in 1..number_psus |-> [j \in 1..number_psus |-> Q(number_psus, number_psus - 1)]]

\* number_psus / (number_psus - 1) is a division of Python ints
jkn_psus_replicates(number_psus) ==
    [i \in 1..number_psus |-> [j \in 1..number_psus |->
        QMul(Q(number_psus, number_psus - 1), IF i = j THEN QInt(0) ELSE QInt(1))]]

\* the sizes of the strata, in np.unique(stratum) order
strata_sizes(psu, stratum) ==
    [k \in 1..Len(np_unique(stratum)) |->
        Cardinality(Range(psu_of_stratum(psu, stratum, np_unique(stratum)[k])))]

\* rows start+1..end of stratum k, as the loop's start and end
block_start(ns, k) == Sum(SubSeq(ns, 1, k - 1))
block_of(ns, i) == CHOOSE k \in 1..Len(ns) : block_start(ns, k) < i /\ i <= block_start(ns, k) + ns[k]

\* the strata the loop completes: all of them, or those before the first stratum of
\* one PSU, where _jkn_psus_replicates divides by zero
jkn_strata_done(ns) ==
    IF \A k \in 1..Len(ns) : ns[k] # 1 THEN Len(ns)
    ELSE Min({k \in 1..Len(ns) : ns[k] = 1}) - 1

\* jkn_rep_coefs without line 203: every replicate keeps (number_reps - 1) / number_reps
jkn_rep_coefs_flat(number_reps, ns) ==
    [g \in 1..number_reps |-> Q(number_reps - 1, number_reps)]

\* rep_coefs as the loop leaves them: (number_reps - 1) / number_reps everywhere,
\* overwritten with (number_psus_s - 1) / number_psus_s on the rows of each
\* completed stratum
jkn_rep_coefs(number_reps, ns) ==
    [g \in 1..number_reps |->
        IF block_of(ns, g) <= jkn_strata_done(ns)
        THEN Q(ns[block_of(ns, g)] - 1, ns[block_of(ns, g)])
        ELSE Q(number_reps - 1, number_reps)]

\* jkn_strata_coefs on a matrix that starts as n_h/(n_h - 1) instead of ones: the
\* PSUs of the other strata are not left alone
jkn_strata_coefs_scaled(number_reps, ns) ==
    [i \in 1..number_reps |-> [j \in 1..number_reps |->
        IF block_of(ns, i) = block_of(ns, j)
        THEN jkn_psus_replicates(ns[block_of(ns, i)])
                [i - block_start(ns, block_of(ns, i))][j - block_start(ns, block_of(ns, i))]
        ELSE Q(ns[block_of(ns, j)], ns[block_of(ns, j)] - 1)]]

\* jk_coefs of the stratified loop: ones, with the block of each stratum on the diagonal
jkn_strata_coefs(number_reps, ns) ==
    [i \in 1..number_reps |-> [j \in 1..number_reps |->
        IF block_of(ns, i) = block_of(ns, j)
        THEN jkn_psus_replicates(ns[block_of(ns, i)])
                [i - block_start(ns, block_of(ns, i))][j - block_start(ns, block_of(ns, i))]
        ELSE QInt(1)]]

\* jkn_strata_replicates that goes on past a stratum of one PSU: its only PSU is
\* deleted and gets the coefficient 0
jkn_strata_replicates_past(gen, rng, ns) ==
    IF jkn_strata_done(ns) < Len(ns)
    THEN Return([gen EXCEPT !.rep_coefs = jkn_rep_coefs(gen.number_reps, ns)],
                rng,
                [i \in 1..gen.number_reps |-> [j \in 1..gen.number_reps |->
                    IF i = j THEN QInt(0) ELSE QInt(1)]])
    ELSE Return([gen EXCEPT !.rep_coefs = jkn_rep_coefs(gen.number_reps, ns)],
                rng, jkn_strata_coefs(gen.number_reps, ns))

\* the stratified branch, on the sizes ns of the strata
jkn_strata_replicates(gen, rng, ns) ==
    IF jkn_strata_done(ns) < Len(ns)
    THEN Raise([gen EXCEPT !.rep_coefs = jkn_rep_coefs(gen.number_reps, ns)],
               rng, "ZeroDivisionError")
    ELSE Return([gen EXCEPT !.rep_coefs = jkn_rep_coefs(gen.number_reps, ns)],
                rng, jkn_strata_coefs(gen.number_reps, ns))

\* jkn_replicates that leaves self.rep_coefs as it found it
jkn_replicates_unset(gen, rng, psu, stratum) ==
    IF ~stratum.given
    THEN IF Cardinality(Range(psu)) = 1
         THEN Raise(gen, rng, "ZeroDivisionError")
         ELSE Return(gen, rng, jkn_psus_replicates(Cardinality(Range(psu))))
    ELSE [jkn_strata_replicates(gen, rng, strata_sizes(psu, stratum.arr))
             EXCEPT !.self.rep_coefs = gen.rep_coefs]

jkn_replicates(gen, rng, psu, stratum) ==
    IF ~stratum.given
    THEN IF Cardinality(Range(psu)) = 1
         THEN Raise([gen EXCEPT !.rep_coefs =
                        [g \in 1..gen.number_reps |-> Q(gen.number_reps - 1, gen.number_reps)]],
                    rng, "ZeroDivisionError")
         ELSE Return([gen EXCEPT !.rep_coefs =
                        [g \in 1..gen.number_reps |-> Q(gen.number_reps - 1, gen.number_reps)]],
                     rng, jkn_psus_replicates(Cardinality(Range(psu))))
    ELSE jkn_strata_replicates(gen, rng, strata_sizes(psu, stratum.arr))

(* ---------------- bootstrap ---------------- *)
IsSquare(n) == \E k \in 0..n : k * k = n
ISqrt(n) == CHOOSE k \in 0..n : k * k = n
\* np.sqrt of a rational whose numerator and denominator are squares
QSqrt(a) == <<ISqrt(a[1]), ISqrt(a[2])>>

\* boot_psus_counts that looks for PSU p among draws numbered from 0
boot_psus_counts_from_one(psu_boot, p, rep) ==
    Cardinality({k \in 1..Len(psu_boot[rep]) : psu_boot[rep][k] = p})

\* psu_replicates[p][rep]: how often replicate rep drew PSU p - 1
boot_psus_counts(psu_boot, p, rep) ==
    Cardinality({k \in 1..Len(psu_boot[rep]) : psu_boot[rep][k] = p - 1})

\* np.sqrt((1 - samp_rate) * sample_size / (number_psus - 1))
boot_ratio_sqrt(number_psus, samp_rate, sample_size) ==
    QSqrt(QDiv(QMul(QSub(QInt(1), samp_rate), QInt(sample_size)), QInt(number_psus - 1)))

\* boot_coefs_of on a resample of number_psus draws instead of number_psus - size_gap
boot_coefs_of_all(number_psus, number_reps, samp_rate, size_gap, rng) ==
    [p \in 1..number_psus |-> [rep \in 1..number_reps |->
        QAdd(QSub(QInt(1),
                  boot_ratio_sqrt(number_psus, samp_rate, number_psus - size_gap)),
             QMul(QMul(boot_ratio_sqrt(number_psus, samp_rate,
                                       number_psus - size_gap),
                       Q(number_psus, number_psus - size_gap)),
                  QInt(boot_psus_counts(
                          np_random_choice(rng, number_psus, number_reps, number_psus),
                          p, rep))))]]

\* boot_coefs[psu][rep] = 1 - ratio_sqrt + ratio_sqrt * (number_psus / sample_size)
\* * psu_replicates, from the draws np.random.choice makes in state rng
boot_coefs_of(number_psus, number_reps, samp_rate, size_gap, rng) ==
    [p \in 1..number_psus |-> [rep \in 1..number_reps |->
        QAdd(QSub(QInt(1),
                  boot_ratio_sqrt(number_psus, samp_rate, number_psus - size_gap)),
             QMul(QMul(boot_ratio_sqrt(number_psus, samp_rate,
                                       number_psus - size_gap),
                       Q(number_psus, number_psus - size_gap)),
                  QInt(boot_psus_counts(
                          np_random_choice(rng, number_psus, number_reps,
                                           number_psus - size_gap),
                          p, rep))))]]

\* boot_psus_replicates that tests number_psus < size_gap: with as many PSUs as the
\* gap nothing is resampled and every PSU keeps the coefficient 1
boot_psus_replicates_kept(number_psus, number_reps, samp_rate, size_gap, rng) ==
    IF number_psus < size_gap
    THEN [exc |-> "AssertionError", rng |-> rng, val |-> <<>>]
    ELSE IF number_psus = size_gap
    THEN [exc |-> "none", rng |-> rng,
          val |-> [p \in 1..number_psus |-> [rep \in 1..number_reps |-> QInt(1)]]]
    ELSE [exc |-> "none",
          rng |-> rng_after(rng, number_reps * (number_psus - size_gap)),
          val |-> boot_coefs_of(number_psus, number_reps, samp_rate, size_gap, rng)]

\* the static method: number_psus <= size_gap raises; else val is the matrix
\* boot_coefs[psu][rep] and the random state has moved by number_reps * sample_size draws
boot_psus_replicates(number_psus, number_reps, samp_rate, size_gap, rng) ==
    IF number_psus <= size_gap
    THEN [exc |-> "AssertionError", rng |-> rng, val |-> <<>>]
    ELSE [exc |-> "none",
          rng |-> rng_after(rng, number_reps * (number_psus - size_gap)),
          val |-> boot_coefs_of(number_psus, number_reps, samp_rate, size_gap, rng)]

\* the loop over the strata from stratum k on, rows accumulated in acc
RECURSIVE boot_strata(_, _, _, _, _, _, _)

\* one pass of the loop: b is what _boot_psus_replicates did for stratum k
boot_stratum(ns, k, number_reps, samp_rate, size_gap, acc, b) ==
    IF b.exc # "none" THEN b
    ELSE boot_strata(ns, k + 1, number_reps, samp_rate, size_gap, b.rng, acc \o b.val)

boot_strata(ns, k, number_reps, samp_rate, size_gap, rng, acc) ==
    IF k > Len(ns) THEN [exc |-> "none", rng |-> rng, val |-> acc]
    ELSE boot_stratum(ns, k, number_reps, samp_rate, size_gap, acc,
                      boot_psus_replicates(ns[k], number_reps, samp_rate, size_gap, rng))

boot_replicates(gen, rng, psu, stratum, samp_rate, size_gap) ==
    [self |-> gen] @@
        (IF ~stratum.given
         THEN boot_psus_replicates(Cardinality(Range(psu)), gen.number_reps,
                                   samp_rate, size_gap, rng)
         ELSE boot_strata(strata_sizes(psu, stratum.arr), 1, gen.number_reps,
                          samp_rate, size_gap, rng, <<>>))

(* ---------------- balanced repeated replication ---------------- *)
RECURSIVE Pow2(_)
Pow2(k) == IF k = 0 THEN 1 ELSE 2 * Pow2(k - 1)

\* int(math.log(n, 2)) for n >= 1
RECURSIVE ILog2(_)
ILog2(n) == IF n < 2 THEN 0 ELSE 1 + ILog2(n \div 2)

\* the distinct (stratum, psu) pairs: np.unique(np.array(list(zip(stratum, psu))), axis=0)
stratum_psu_pairs(psu, stratum) == {<<stratum[i], psu[i]>> : i \in 1..Len(psu)}

\* number_psus and number_strata as _brr_number_reps sets them
brr_number_psus(gen, psu, stratum) ==
    IF ~stratum.given
    THEN [gen EXCEPT !.number_psus = Cardinality(Range(psu)),
                     !.number_strata = (Cardinality(Range(psu)) \div 2)
                                       + (Cardinality(Range(psu)) % 2)]
    ELSE [gen EXCEPT !.number_psus = Cardinality(stratum_psu_pairs(psu, stratum.arr)),
                     !.number_strata = Cardinality(Range(stratum.arr))]

\* number_reps made a size of Hadamard matrix: up to the next multiple of 4 when at
\* most 28, else to int(math.pow(2, int(math.log(number_reps, 2))))
brr_round_reps(number_reps) ==
    IF number_reps <= 28
    THEN IF number_reps % 4 # 0 THEN 4 * (number_reps \div 4 + 1) ELSE number_reps
    ELSE IF Pow2(ILog2(number_reps)) # number_reps
         THEN Pow2(ILog2(number_reps)) ELSE number_reps

\* the test of the PSU count and the rounding, on the generator g1 that holds the design's numbers
brr_set_number_reps(g1, rng, stratum) ==
    IF stratum.given /\ 2 * g1.number_strata # g1.number_psus
    THEN Raise(g1, rng, "AssertionError")
    ELSE Return([g1 EXCEPT !.number_reps =
                    brr_round_reps(IF g1.number_reps < g1.number_strata
                                   THEN g1.number_strata ELSE g1.number_reps)],
                rng, <<>>)

brr_number_reps(gen, rng, psu, stratum) ==
    brr_set_number_reps(brr_number_psus(gen, psu, stratum), rng, stratum)

\* hdd.hadamard(n)[r][c], rows and columns counted from 0: the Hadamard matrix of
\* order n (entries 1 and -1) whose first row and first column are all 1.
\* Sylvester's construction for a power of two.
RECURSIVE sylvester(_, _, _)
sylvester(n, r, c) ==
    IF n = 1 THEN 1
    ELSE sylvester(n \div 2, r % (n \div 2), c % (n \div 2))
         * (IF r >= n \div 2 /\ c >= n \div 2 THEN -1 ELSE 1)

\* the quadratic character of a modulo the prime q
legendre(a, q) ==
    IF a % q = 0 THEN 0
    ELSE IF \E x \in 1..(q - 1) : (x * x) % q = a % q THEN 1 ELSE -1

IsPrime(q) == q >= 2 /\ \A d \in 2..(q - 1) : q % d # 0

\* Paley's first construction, of order q + 1 for a prime q = 3 (mod 4)
paley1(q, r, c) ==
    IF r = 0 \/ c = 0 THEN 1
    ELSE IF r = c THEN -1
    ELSE -legendre(r - c, q)

\* Paley's second construction, of order 2 (q + 1) for a prime q = 1 (mod 4),
\* before its rows and columns are signed: the block of the conference matrix
\* entry (r div 2, c div 2)
paley2_raw(q, r, c) ==
    IF r \div 2 = c \div 2
    THEN (IF r % 2 = 0 /\ c % 2 = 0 THEN 1 ELSE -1)
    ELSE (IF r \div 2 = 0 \/ c \div 2 = 0 THEN 1 ELSE legendre((r \div 2) - (c \div 2), q))
         * (IF r % 2 = 1 /\ c % 2 = 1 THEN -1 ELSE 1)

paley2(q, r, c) == paley2_raw(q, r, c) * paley2_raw(q, r, 0) * paley2_raw(q, 0, c) * paley2_raw(q, 0, 0)

hadamard(n, r, c) ==
    IF Pow2(ILog2(n)) = n THEN sylvester(n, r, c)
    ELSE IF IsPrime(n - 1) /\ (n - 1) % 4 = 3 THEN paley1(n - 1, r, c)
    ELSE paley2(n \div 2 - 1, r, c)

\* rep_coefs as _brr_replicates sets them (line 158)
brr_rep_coefs(number_reps, fay_coef) ==
    [g \in 1..number_reps |->
        QDiv(QInt(1), QMul(QInt(number_reps), QSq(QSub(QInt(1), fay_coef))))]

\* rep_coefs as replicate sets them after _brr_replicates returned (line 266):
\* 1 / number_reps * pow(1 - fay_coef, 2) is (1 / number_reps) * (1 - fay_coef)^2
replicate_brr_rep_coefs(number_reps, fay_coef) ==
    [g \in 1..number_reps |->
        QMul(QDiv(QInt(1), QInt(number_reps)), QSq(QSub(QInt(1), fay_coef)))]

\* brr_coefs with the two values exchanged: fay_coef goes to the second PSU when
\* the entry is 1
brr_coefs_exchanged(g1, rng) ==
    IF g1.number_strata > g1.number_reps - 1
    THEN Raise(g1, rng, "IndexError")
    ELSE Return(g1, rng,
           [p \in 1..(2 * g1.number_strata) |-> [r \in 1..g1.number_reps |->
              IF (hadamard(g1.number_reps, r - 1, (p + 1) \div 2) = 1) = (p % 2 = 1)
              THEN QSub(QInt(2), g1.fay_coef) ELSE g1.fay_coef]])

\* brr_coefs.T: columns 1..number_strata of the Hadamard matrix, each repeated for
\* the two PSUs of its stratum; the slice stops at the matrix's last column, so the
\* loop runs off the array when number_strata > number_reps - 1
brr_coefs(g1, rng) ==
    IF g1.number_strata > g1.number_reps - 1
    THEN Raise(g1, rng, "IndexError")
    ELSE Return(g1, rng,
           [p \in 1..(2 * g1.number_strata) |-> [r \in 1..g1.number_reps |->
              IF (hadamard(g1.number_reps, r - 1, (p + 1) \div 2) = 1) = (p % 2 = 1)
              THEN g1.fay_coef ELSE QSub(QInt(2), g1.fay_coef)]])

\* _brr_replicates after _brr_number_reps: nr is what that call did
brr_hadamard_replicates(nr, rng) ==
    IF nr.exc # "none" THEN nr
    ELSE brr_coefs([nr.self EXCEPT !.rep_coefs =
                       brr_rep_coefs(nr.self.number_reps, nr.self.fay_coef)], rng)

\* brr_replicates that tests only fay_coef < 1: a negative coefficient passes
brr_replicates_below_one(gen, rng, psu, stratum) ==
    IF ~(gen.fay_coef[1] < gen.fay_coef[2])
    THEN Raise(gen, rng, "ValueError")
    ELSE brr_hadamard_replicates(brr_number_reps(gen, rng, psu, stratum), rng)

brr_replicates(gen, rng, psu, stratum) ==
    IF ~(gen.fay_coef[1] >= 0 /\ gen.fay_coef[1] < gen.fay_coef[2])
    THEN Raise(gen, rng, "ValueError")
    ELSE brr_hadamard_replicates(brr_number_reps(gen, rng, psu, stratum), rng)

(* ---------------- replicate ---------------- *)
\* checks._check_brr_number_psus: the PSUs of an unstratified BRR design are paired
\* into strata, so their number must be even
check_brr_number_psus(number_psus) == number_psus % 2 = 0

\* the frame stratum_psu: one row per unit with its index label and its key.
\* Sorting by stratum moves the rows and keeps their labels; without a stratum
\* the key of BRR pairs the PSUs in order of appearance, two to a stratum.
stratum_psu_frame(gen, psu, stratum) ==
    IF stratum.given
    THEN [k \in 1..Len(psu) |->
            [idx |-> sort_values(stratum.arr)[k],
             key |-> <<stratum.arr[sort_values(stratum.arr)[k]],
                       psu[sort_values(stratum.arr)[k]]>>]]
    ELSE IF gen.method = "brr"
    THEN [i \in 1..Len(psu) |->
            [idx |-> i, key |-> <<(IndexOf(drop_duplicates(psu), psu[i]) + 1) \div 2, psu[i]>>]]
    ELSE [i \in 1..Len(psu) |-> [idx |-> i, key |-> <<psu[i]>>]]

\* psus_ids = stratum_psu.drop_duplicates(): the distinct keys in frame order
psus_ids_of(frame) == drop_duplicates([k \in 1..Len(frame) |-> frame[k].key])

\* pd.concat([stratum_psu, samp_weight], axis=1): the rows of the two frames are
\* matched by label. When the labels of stratum_psu are out of order the united
\* labels come sorted (sorts) or in stratum_psu's order, depending on the pandas.
concat_order(frame, sorts) ==
    IF sorts THEN [k \in 1..Len(frame) |-> k] ELSE [k \in 1..Len(frame) |-> frame[k].idx]

\* the key of the unit with label i
key_of(frame, i) == frame[CHOOSE k \in 1..Len(frame) : frame[k].idx = i].key

\* the table replicate returns: row k holds the unit with label idx, its key, its
\* sampling weight and its replicate columns; the replicate columns are multiplied
\* by samp_weight.values, that is by the k-th weight of the input
full_sample(frame, sorts, samp_weight, psus_ids, rep_data, rep_coefs) ==
    [k \in 1..Len(frame) |->
        [idx |-> concat_order(frame, sorts)[k],
         key |-> key_of(frame, concat_order(frame, sorts)[k]),
         samp_weight |-> samp_weight[concat_order(frame, sorts)[k]],
         reps |-> [r \in 1..Len(rep_data[1]) |->
                     IF rep_coefs
                     THEN rep_data[IndexOf(psus_ids,
                                     key_of(frame, concat_order(frame, sorts)[k]))][r]
                     ELSE QMul(rep_data[IndexOf(psus_ids,
                                          key_of(frame, concat_order(frame, sorts)[k]))][r],
                               QInt(samp_weight[k]))]]]

\* BRR in replicate: _brr_replicates, and when it returned rep_coefs is set again
replicate_brr(b) ==
    IF b.exc # "none" THEN b
    ELSE [b EXCEPT !.self.rep_coefs =
             replicate_brr_rep_coefs(b.self.number_reps, b.self.fay_coef)]

\* the coefficients of the method, for number_ids distinct keys
rep_data_of(g1, rng, psu, stratum, number_ids) ==
    IF g1.method = "jackknife"
    THEN jkn_replicates([g1 EXCEPT !.number_reps = number_ids,
                                   !.attrs = @ \cup {"number_reps"}],
                        rng, psu, stratum)
    ELSE IF g1.method = "bootstrap"
    THEN boot_replicates(g1, rng, psu, stratum, QInt(0), 1)
    ELSE IF g1.method = "brr"
    THEN replicate_brr(brr_replicates(g1, rng, psu, stratum))
    ELSE Raise(g1, rng, "AssertionError")

\* the rest of replicate once the method has run: m is what the method did
replicate_table(frame, sorts, samp_weight, rep_coefs, m) ==
    IF m.exc # "none" THEN m
    ELSE Return(m.self, m.rng,
           [table |-> full_sample(frame, sorts, samp_weight, psus_ids_of(frame),
                                  m.val, rep_coefs),
            psus_ids |-> psus_ids_of(frame),
            coefs |-> m.val])

\* replicate from the key frame on
replicate_frame(g1, rng, sorts, samp_weight, psu, stratum, rep_coefs, frame) ==
    replicate_table(frame, sorts, samp_weight, rep_coefs,
                    rep_data_of(g1, rng, psu, stratum, Len(psus_ids_of(frame))))

\* replicate after _degree_of_freedom, with stratum dropped for an unstratified
\* generator
replicate_design(g1, rng, sorts, samp_weight, psu, stratum, rep_coefs) ==
    IF g1.stratification /\ ~stratum.given
    THEN Raise(g1, rng, "AssertionError")
    ELSE IF ~stratum.given /\ g1.method = "brr"
            /\ ~check_brr_number_psus(Cardinality(Range(psu)))
    THEN Raise(g1, rng, "AssertionError")
    ELSE replicate_frame(g1, rng, sorts, samp_weight, psu, stratum, rep_coefs,
                         stratum_psu_frame(g1, psu, stratum))

\* replicate without lines 232-233: an unstratified generator uses the stratum it
\* is given
replicate_keeps_stratum(gen, rng, sorts, samp_weight, psu, stratum_arg, rep_coefs) ==
    replicate_design(degree_of_freedom(gen, samp_weight, stratum_arg, psu),
                     rng, sorts, samp_weight, psu, stratum_arg, rep_coefs)

replicate(gen, rng, sorts, samp_weight, psu, stratum_arg, rep_coefs) ==
    replicate_design(
        degree_of_freedom(gen, samp_weight,
                          IF gen.stratification THEN stratum_arg ELSE None, psu),
        rng, sorts, samp_weight, psu,
        IF gen.stratification THEN stratum_arg ELSE None, rep_coefs)

(* ---------------- the state machine ---------------- *)
Methods == {"jackknife", "brr", "bootstrap", "sdr"}
FayCoefs == {Q(0, 1), Q(1, 2)}
Seeds == {<<>>} \cup {<<s>> : s \in 0..MaxSeed}

NoCall == [op |-> "none", stratum_given |-> FALSE, rep_coefs |-> FALSE, samp_weight |-> <<>>]
NoResult == [exc |-> "none", table |-> <<>>, psus_ids |-> <<>>, coefs |-> <<>>]
NoEst == [kind |-> "none"]
NoOther == [constructed |-> FALSE]
NoTwin == [calls |-> 0]

\* what the caller of replicate gets from the outcome r
ResultOf(r) ==
    IF r.exc = "none"
    THEN [exc |-> "none", table |-> r.val.table, psus_ids |-> r.val.psus_ids,
          coefs |-> r.val.coefs]
    ELSE [NoResult EXCEPT !.exc = r.exc]

\* the columns of the sample
stratum_col == [i \in 1..Len(units) |-> units[i].stratum]
psu_col == [i \in 1..Len(units) |-> units[i].psu]

\* the sampling weights a call passes: all 1, or cycling through 1..MaxWeight
\* in steps of k, so that neighbouring units differ
WeightVectors(n) == {[i \in 1..n |-> 1 + ((k * i) % MaxWeight)] : k \in 0..(MaxWeight - 1)}

\* A generator is constructed; the sample is still empty. The random state before
\* the constructor is whatever the process has; an unseeded run starts from state 0.
\* Only the bootstrap reads the random state, so the other methods are constructed
\* unseeded.
ConstructWith(methods, fay_coefs) ==
    /\ \E method \in methods, stratification \in BOOLEAN, number_reps \in 1..MaxReps,
          fay_coef \in fay_coefs, random_seed \in Seeds :
          /\ method # "bootstrap" => random_seed = <<>>
          /\ LET c == ReplicateWeight(method, stratification, number_reps, fay_coef,
                                      random_seed, 0)
             IN  self = c.self /\ np_random = c.rng
    /\ units = <<>>
    /\ call = NoCall
    /\ result = NoResult
    /\ est = NoEst
    /\ other = NoOther
    /\ twin = NoTwin

Construct(methods) == ConstructWith(methods, FayCoefs)

Init == Construct(Methods)

\* The caller's sample grows by one unit, before the generator is used. PSU labels
\* are numbered within their stratum in order of appearance.
AddUnit ==
    /\ Len(units) < MaxUnits
    /\ call.op = "none"
    /\ \E s \in 1..MaxStratum, p \in 1..MaxPsu :
          /\ p <= Cardinality({u.psu : u \in {v \in Range(units) : v.stratum = s}}) + 1
          /\ units' = Append(units, [stratum |-> s, psu |-> p])
    /\ UNCHANGED <<self, np_random, call, result, est, other, twin>>

\* generator.replicate(samp_weight, psu, stratum or None, rep_coefs) on the collected
\* sample, under either pandas
Replicate ==
    /\ Len(units) >= 1
    /\ call.op = "none"
    /\ \E stratum_given \in BOOLEAN, rep_coefs \in BOOLEAN, sorts \in BOOLEAN,
          samp_weight \in WeightVectors(Len(units)) :
          \* the two pandas differ only on a frame that was sorted
          /\ ~(self.stratification /\ stratum_given) => sorts
          /\ \E r \in {replicate(self, np_random, sorts, samp_weight, psu_col,
                                 IF stratum_given THEN Some(stratum_col) ELSE None,
                                 rep_coefs)} :
                 /\ self' = r.self
                 /\ np_random' = r.rng
                 /\ call' = [op |-> "replicate", stratum_given |-> stratum_given,
                             rep_coefs |-> rep_coefs, samp_weight |-> samp_weight]
                 /\ result' = IF r.exc = "none"
                              THEN [exc |-> "none", table |-> r.val.table,
                                    psus_ids |-> r.val.psus_ids, coefs |-> r.val.coefs]
                              ELSE [NoResult EXCEPT !.exc = r.exc]
    /\ UNCHANGED <<units, est, other, twin>>

Next == AddUnit \/ Replicate

Spec == Init /\ [][Next]_vars

\* the generators of one method each
SpecJackknife == Construct({"jackknife"}) /\ [][Next]_vars
SpecBrr == Construct({"brr"}) /\ [][Next]_vars
SpecBootstrap == Construct({"bootstrap"}) /\ [][Next]_vars

\* the sampling rates a caller of _boot_replicates passes
SampRates == {Q(0, 1), Q(1, 2)}

\* the square root of _boot_psus_replicates is a rational for every stratum that
\* is resampled: the other inputs have no exact value here
boot_sqrt_is_rational(ns, samp_rate, size_gap) ==
    \A k \in 1..Len(ns) :
        ns[k] > size_gap =>
            /\ IsSquare(QDiv(QMul(QSub(QInt(1), samp_rate), QInt(ns[k] - size_gap)),
                             QInt(ns[k] - 1))[1])
            /\ IsSquare(QDiv(QMul(QSub(QInt(1), samp_rate), QInt(ns[k] - size_gap)),
                             QInt(ns[k] - 1))[2])

\* generator._boot_replicates(psu, stratum or None, samp_rate, size_gap) on the
\* collected sample: the method replicate calls with samp_rate = 0 and size_gap = 1,
\* called with a sampling rate and a gap of the caller's choice
BootReplicates ==
    /\ Len(units) >= 1
    /\ call.op = "none"
    /\ self.method = "bootstrap"
    /\ \E stratum_given \in BOOLEAN, samp_rate \in SampRates, size_gap \in 1..MaxGap :
          /\ boot_sqrt_is_rational(IF stratum_given THEN strata_sizes(psu_col, stratum_col)
                                   ELSE <<Cardinality(Range(psu_col))>>,
                                   samp_rate, size_gap)
          /\ \E r \in {boot_replicates(self, np_random, psu_col,
                                       IF stratum_given THEN Some(stratum_col) ELSE None,
                                       samp_rate, size_gap)} :
                 /\ self' = r.self
                 /\ np_random' = r.rng
                 /\ call' = [op |-> "_boot_replicates", stratum_given |-> stratum_given,
                             rep_coefs |-> TRUE, samp_weight |-> <<>>,
                             samp_rate |-> samp_rate, size_gap |-> size_gap]
                 /\ result' = [NoResult EXCEPT !.exc = r.exc, !.coefs = r.val]
    /\ UNCHANGED <<units, est, other, twin>>

NextBoot == AddUnit \/ Replicate \/ BootReplicates

SpecBootGap == Construct({"bootstrap"}) /\ [][NextBoot]_vars

(* ---------------- two runs, two instances ---------------- *)
\* Two runs of a program that constructs one bootstrap generator: the same
\* arguments in both, each run in a process of its own. numpy's random state
\* before the constructor is the process's: 0 in the first run, prior in the second.
ConstructRuns(priors) ==
    /\ \E stratification \in BOOLEAN, number_reps \in 1..MaxReps, random_seed \in Seeds,
          prior \in priors :
          /\ \E c \in {ReplicateWeight("bootstrap", stratification, number_reps, QInt(0),
                                       random_seed, 0)} :
                 self = c.self /\ np_random = c.rng
          /\ \E c \in {ReplicateWeight("bootstrap", stratification, number_reps, QInt(0),
                                       random_seed, prior)} :
                 twin = [calls |-> 0, self |-> c.self, np_random |-> c.rng,
                         result |-> NoResult]
    /\ units = <<>>
    /\ call = NoCall
    /\ result = NoResult
    /\ est = NoEst
    /\ other = NoOther

\* Both runs make their next replicate call, with the same arguments, each on its
\* own generator and its own random state (under a pandas that sorts).
ReplicateBoth ==
    /\ Len(units) >= 1
    /\ twin.calls < MaxCalls
    /\ \E stratum_given \in BOOLEAN :
          /\ \E r \in {replicate(self, np_random, TRUE, [i \in 1..Len(units) |-> 1],
                                 psu_col,
                                 IF stratum_given THEN Some(stratum_col) ELSE None,
                                 FALSE)} :
                 /\ self' = r.self
                 /\ np_random' = r.rng
                 /\ result' = ResultOf(r)
          /\ \E t \in {replicate(twin.self, twin.np_random, TRUE,
                                 [i \in 1..Len(units) |-> 1], psu_col,
                                 IF stratum_given THEN Some(stratum_col) ELSE None,
                                 FALSE)} :
                 twin' = [calls |-> twin.calls + 1, self |-> t.self, np_random |-> t.rng,
                          result |-> ResultOf(t)]
          /\ call' = [op |-> "replicate", stratum_given |-> stratum_given,
                      rep_coefs |-> FALSE, samp_weight |-> [i \in 1..Len(units) |-> 1]]
    /\ UNCHANGED <<units, est, other>>

NextRuns == AddUnit \/ ReplicateBoth

SpecRuns == ConstructRuns(0..(RngMod - 1)) /\ [][NextRuns]_vars

\* The first run's process constructs a second generator at any moment:
\* ReplicateWeight("bootstrap", stratification=False, number_reps), unseeded or seeded.
ConstructOther ==
    /\ ~other.constructed
    /\ \E random_seed \in {<<>>, <<MaxSeed>>} :
          \E c \in {ReplicateWeight("bootstrap", FALSE, MaxReps, QInt(0), random_seed,
                                    np_random)} :
              /\ other' = [constructed |-> TRUE, called |-> FALSE, self |-> c.self]
              /\ np_random' = c.rng
    /\ UNCHANGED <<self, units, call, result, est, twin>>

\* The second generator replicates the sample, once.
ReplicateOther ==
    /\ Len(units) >= 1
    /\ other.constructed
    /\ ~other.called
    /\ \E r \in {replicate(other.self, np_random, TRUE, [i \in 1..Len(units) |-> 1],
                           psu_col, None, FALSE)} :
           /\ other' = [constructed |-> TRUE, called |-> TRUE, self |-> r.self]
           /\ np_random' = r.rng
    /\ UNCHANGED <<self, units, call, result, est, twin>>

NextPeers == AddUnit \/ ReplicateBoth \/ ConstructOther \/ ReplicateOther

\* the second run starts from the very state of the first and has no second generator
SpecPeers == ConstructRuns({0}) /\ [][NextPeers]_vars

\* BRR generators constructed with any Fay coefficient, the ones outside [0, 1)
\* included: the constructor stores fay_coef as it is given
FayCoefsAny == {Q(-1, 2), Q(0, 1), Q(1, 2), Q(1, 1), Q(3, 2)}
SpecBrrFay == ConstructWith({"brr"}, FayCoefsAny) /\ [][Next]_vars

(* ---------------- balanced designs of any size ---------------- *)
\* the design BRR is made for: strata 1..H with two PSUs each, one unit per PSU,
\* the PSUs labelled 1..2H
BalancedDesign(H) == [i \in 1..(2 * H) |-> [stratum |-> (i + 1) \div 2, psu |-> i]]

\* A BRR generator replicates a balanced design of H strata (the stratum array is
\* passed to a stratified generator; an unstratified one pairs the PSUs itself).
ReplicateBalanced ==
    /\ call.op = "none"
    /\ \E H \in 1..MaxBrrStrata, rep_coefs \in BOOLEAN :
          \E r \in {replicate(self, np_random, TRUE, [i \in 1..(2 * H) |-> 1],
                              [i \in 1..(2 * H) |-> BalancedDesign(H)[i].psu],
                              IF self.stratification
                              THEN Some([i \in 1..(2 * H) |-> BalancedDesign(H)[i].stratum])
                              ELSE None,
                              rep_coefs)} :
              /\ units' = BalancedDesign(H)
              /\ self' = r.self
              /\ np_random' = r.rng
              /\ call' = [op |-> "replicate", stratum_given |-> self.stratification,
                          rep_coefs |-> rep_coefs, samp_weight |-> [i \in 1..(2 * H) |-> 1]]
              /\ result' = IF r.exc = "none"
                           THEN [exc |-> "none", table |-> r.val.table,
                                 psus_ids |-> r.val.psus_ids, coefs |-> r.val.coefs]
                           ELSE [NoResult EXCEPT !.exc = r.exc]
    /\ UNCHANGED <<est, other, twin>>

SpecBrrDesign == Construct({"brr"}) /\ [][ReplicateBalanced]_vars

(* ---------------- one instance, call after call ---------------- *)
\* the designs of the successive calls: strata of two PSUs each, or one stratum of
\* up to 3 PSUs; one unit per PSU
HistoryDesigns ==
    {BalancedDesign(H) : H \in 1..MaxStrata}
        \cup {[i \in 1..n |-> [stratum |-> 1, psu |-> i]] : n \in 1..3}

\* A jackknife or BRR generator is constructed; twin holds the instance as
\* constructed (fresh), and what a call on it does.
ConstructHistory ==
    /\ \E method \in {"jackknife", "brr"}, stratification \in BOOLEAN, fay_coef \in FayCoefs :
          \E c \in {ReplicateWeight(method, stratification, MaxReps, fay_coef, <<>>, 0)} :
              /\ self = c.self
              /\ np_random = c.rng
              /\ twin = [calls |-> 0, fresh |-> c.self, self |-> c.self, result |-> NoResult]
    /\ units = <<>>
    /\ call = NoCall
    /\ result = NoResult
    /\ est = NoEst
    /\ other = NoOther

\* The next replicate call on the instance, on a design of the caller's choice; the
\* same call is made on a freshly constructed instance.
ReplicateAgain ==
    /\ twin.calls < MaxCalls
    /\ \E design \in HistoryDesigns, rep_coefs \in BOOLEAN :
          /\ units' = design
          /\ \E r \in {replicate(self, np_random, TRUE, [i \in 1..Len(design) |-> 1],
                                 [i \in 1..Len(design) |-> design[i].psu],
                                 IF self.stratification
                                 THEN Some([i \in 1..Len(design) |-> design[i].stratum])
                                 ELSE None,
                                 rep_coefs)} :
                 /\ self' = r.self
                 /\ np_random' = r.rng
                 /\ result' = ResultOf(r)
          /\ \E t \in {replicate(twin.fresh, 0, TRUE, [i \in 1..Len(design) |-> 1],
                                 [i \in 1..Len(design) |-> design[i].psu],
                                 IF self.stratification
                                 THEN Some([i \in 1..Len(design) |-> design[i].stratum])
                                 ELSE None,
                                 rep_coefs)} :
                 twin' = [calls |-> twin.calls + 1, fresh |-> twin.fresh, self |-> t.self,
                          result |-> ResultOf(t)]
          /\ call' = [op |-> "replicate", stratum_given |-> self.stratification,
                      rep_coefs |-> rep_coefs, samp_weight |-> [i \in 1..Len(design) |-> 1]]
    /\ UNCHANGED <<est, other>>

SpecHistory == ConstructHistory /\ [][ReplicateAgain]_vars

(* ---------------- the names of the replicate columns ---------------- *)
\* str(n) of a natural number
RECURSIVE str(_)
str(n) ==
    IF n < 10
    THEN <<"0", "1", "2", "3", "4", "5", "6", "7", "8", "9">>[n + 1]
    ELSE str(n \div 10) \o str(n % 10)

\* _rep_prefix: the branches in the order of the source
rep_prefix(gen, prefix) ==
    IF gen.method = "jackknife" /\ ~prefix.given THEN "_jk_wgt_"
    ELSE IF gen.method = "bootstrap" /\ ~prefix.given THEN "_boot_wgt_"
    ELSE IF gen.method = "brr" /\ ~prefix.given THEN "_brr_wgt_"
    ELSE IF gen.method = "brr" /\ gen.fay_coef[1] > 0 /\ ~prefix.given THEN "_fay_wgt_"
    ELSE IF ~prefix.given THEN "_rep_wgt_"
    ELSE prefix.arr

\* _reps_to_dataframe: column x of the coefficients, counted from 0, is renamed to
\* the prefix followed by x + 1
reps_to_dataframe(rep_data, prefix) ==
    [x \in 1..Len(rep_data[1]) |-> prefix \o str((x - 1) + 1)]

\* the prefixes a caller passes: none, a name, or the empty string
Prefixes == {None, Some("w"), Some("")}

\* replicate(samp_weight, psu, stratum, rep_prefix=prefix) on a design of the
\* caller's choice; the result holds the names of the replicate columns as well
ReplicateNamed ==
    /\ call.op = "none"
    /\ \E design \in HistoryDesigns, prefix \in Prefixes :
          /\ units' = design
          /\ \E r \in {replicate(self, np_random, TRUE, [i \in 1..Len(design) |-> 1],
                                 [i \in 1..Len(design) |-> design[i].psu],
                                 IF self.stratification
                                 THEN Some([i \in 1..Len(design) |-> design[i].stratum])
                                 ELSE None,
                                 FALSE)} :
                 /\ self' = r.self
                 /\ np_random' = r.rng
                 /\ result' = [exc |-> r.exc,
                               table |-> ResultOf(r).table,
                               psus_ids |-> ResultOf(r).psus_ids,
                               coefs |-> ResultOf(r).coefs,
                               columns |-> IF r.exc = "none"
                                           THEN reps_to_dataframe(r.val.coefs,
                                                                  rep_prefix(r.self, prefix))
                                           ELSE <<>>]
          /\ call' = [op |-> "replicate", stratum_given |-> self.stratification,
                      rep_coefs |-> FALSE, samp_weight |-> [i \in 1..Len(design) |-> 1],
                      rep_prefix |-> prefix]
    /\ UNCHANGED <<est, other, twin>>

SpecNamed == Construct({"jackknife", "brr", "bootstrap"}) /\ [][ReplicateNamed]_vars

(* ---------------- variance estimation from the replicates ---------------- *)
\* the point estimates of the estimator: the weighted total and the weighted mean
point_total(weight, value) == QSum([i \in 1..Len(value) |-> QMul(weight[i], QInt(value[i]))])
point_mean(weight, value) ==
    QDiv(point_total(weight, value), QSum([i \in 1..Len(weight) |-> weight[i]]))

\* the sampling weights as floats
float_weight(samp_weight) == [i \in 1..Len(samp_weight) |-> QInt(samp_weight[i])]

\* the row of the table that holds the unit with label i
row_of(table, i) == table[CHOOSE k \in 1..Len(table) : table[k].idx = i]

\* the replicate weights of replicate g, by unit label: the unit's sampling weight
\* times the coefficient in its row of the table of raw coefficients
replicate_weight(table, g) ==
    [i \in 1..Len(table) |->
        QMul(QInt(row_of(table, i).samp_weight), row_of(table, i).reps[g])]

\* sum over the replicates g of rep_coefs[g] * (theta_g - theta)^2
replicate_variance(rep_coefs, theta_g, theta) ==
    QSum([g \in 1..Len(rep_coefs) |-> QMul(rep_coefs[g], QSq(QSub(theta_g[g], theta)))])

\* the linearized variable z of a total: weight * value
z_total(weight, value) == [i \in 1..Len(value) |-> QInt(weight[i] * value[i])]

\* the linearized variable z of a mean: the weighted residual over the sum of weights
z_residual(weight, value, mean) ==
    [i \in 1..Len(value) |->
        QDiv(QMul(QInt(weight[i]), QSub(QInt(value[i]), mean)), QInt(Sum(weight)))]

z_mean(weight, value) == z_residual(weight, value, point_mean(float_weight(weight), value))

\* the PSUs of stratum h, in order
psus_of(psu, strat, h) == SortedSeq({psu[i] : i \in {j \in 1..Len(psu) : strat[j] = h}})

\* z summed to the totals of the PSUs psus of stratum h
psu_totals(z, psu, strat, h, psus) ==
    [a \in 1..Len(psus) |->
        QSum([k \in 1..Len(z) |->
                IF strat[k] = h /\ psu[k] = psus[a] THEN z[k] ELSE QInt(0)])]

\* (n_h / (n_h - 1)) * sum of (z_psu - zbar_h)^2 over the n_h PSUs of a stratum
sum_of_squares(z_psu, zbar) ==
    QMul(Q(Len(z_psu), Len(z_psu) - 1),
         QSum([a \in 1..Len(z_psu) |-> QSq(QSub(z_psu[a], zbar))]))

stratum_variance(z_psu) == sum_of_squares(z_psu, QDiv(QSum(z_psu), QInt(Len(z_psu))))

\* the variance with the stratum of every unit given
strata_variance(z, psu, strat) ==
    QSum([k \in 1..Len(np_unique(strat)) |->
            stratum_variance(psu_totals(z, psu, strat, np_unique(strat)[k],
                                        psus_of(psu, strat, np_unique(strat)[k])))])

\* the Taylor variance: z is summed to PSU totals within each stratum, the strata
\* add up (no finite-population correction); one stratum when none is given
taylor_variance(z, psu, stratum) ==
    strata_variance(z, psu, IF stratum.given THEN stratum.arr ELSE [i \in 1..Len(z) |-> 1])

\* the variance of the total and of the mean of value, from the replicate weights
\* and rep_coefs, and by Taylor linearization on the same design
variance_estimates(gen, table, samp_weight, value, psu, stratum) ==
    [kind |-> "variance",
     value |-> value,
     total |-> point_total(float_weight(samp_weight), value),
     mean |-> point_mean(float_weight(samp_weight), value),
     jk_total |->
         replicate_variance(gen.rep_coefs,
             [g \in 1..gen.number_reps |-> point_total(replicate_weight(table, g), value)],
             point_total(float_weight(samp_weight), value)),
     jk_mean |->
         replicate_variance(gen.rep_coefs,
             [g \in 1..gen.number_reps |-> point_mean(replicate_weight(table, g), value)],
             point_mean(float_weight(samp_weight), value)),
     taylor_total |-> taylor_variance(z_total(samp_weight, value), psu, stratum),
     taylor_mean |-> taylor_variance(z_mean(samp_weight, value), psu, stratum)]

Values(n) == [1..n -> 0..MaxValue]

\* The caller asked for the raw coefficients (rep_coefs=True) and estimates the
\* variance of the total and of the mean of a variable both ways: from the replicate
\* weights with rep_coefs, and by Taylor linearization on the design the generator
\* was given.
EstimateVariance ==
    /\ call.op = "replicate"
    /\ call.rep_coefs
    /\ result.exc = "none"
    /\ est.kind = "none"
    /\ \E value \in Values(Len(units)) :
          est' = variance_estimates(self, result.table, call.samp_weight, value, psu_col,
                                    IF self.stratification /\ call.stratum_given
                                    THEN Some(stratum_col) ELSE None)
    /\ UNCHANGED <<self, np_random, units, call, result, other, twin>>

NextVariance == AddUnit \/ Replicate \/ EstimateVariance

SpecJkVar == Construct({"jackknife"}) /\ [][NextVariance]_vars

(* ---------------- the Taylor linearization estimator ---------------- *)
\* TaylorEstimator(parameter).estimate(y, samp_weight, x, stratum, psu, domain), with
\* fpc and the policy for strata of one PSU at their defaults (1, error).
Parameters == {"total", "mean", "ratio", "proportion"}

\* the key of the whole sample in every field of an estimate
Sentinel == "__none__"

\* 0/0, as numpy computes it
NaN == <<0, 0>>

\* a field's value for one domain: a float, or a dict from level to float
Scalar(q) == [kind |-> "scalar", value |-> q]
ByLevel(f) == [kind |-> "levels", value |-> f]

\* domain_keys that keeps the whole sample next to the domains
domain_keys_with_sentinel(domain) ==
    IF domain.given THEN Range(domain.arr) \cup {Sentinel} ELSE {Sentinel}

\* the keys of an estimate: the labels of the domain, or the sentinel without a domain
domain_keys(domain) == IF domain.given THEN Range(domain.arr) ELSE {Sentinel}

\* the weights of the units of domain d, 0 for the units outside it: those stay in
\* the design and contribute nothing
domain_weight(samp_weight, domain, d) ==
    [i \in 1..Len(samp_weight) |->
        IF ~domain.given \/ domain.arr[i] = d THEN samp_weight[i] ELSE 0]

weighted_sum(weight, a) == QSum([i \in 1..Len(a) |-> QMul(QInt(weight[i]), a[i])])

float_values(y) == [i \in 1..Len(y) |-> QInt(y[i])]
ones(n) == [i \in 1..n |-> QInt(1)]
\* 1[y = level]
indicator(y, level) == [i \in 1..Len(y) |-> IF y[i] = level THEN QInt(1) ELSE QInt(0)]

\* z of a total: the weighted value
linear_total(weight, a) == [i \in 1..Len(a) |-> QMul(QInt(weight[i]), a[i])]

\* linear_ratio without the point estimate: the weighted value over the denominator
linear_ratio_uncentred(weight, a, b, R, den) ==
    [i \in 1..Len(a) |-> QDiv(QMul(QInt(weight[i]), a[i]), den)]

\* z of the ratio R = sum(w a) / sum(w b), its first-order expansion around R:
\* w (a - R b) / sum(w b); the weighted residual for a mean (b = 1)
linear_ratio(weight, a, b, R, den) ==
    [i \in 1..Len(a) |->
        QDiv(QMul(QInt(weight[i]), QSub(a[i], QMul(R, b[i]))), den)]

\* the total of a over the domain the weights are masked to
total_estimate(weight, a, psu, stratum) ==
    [kind |-> "scalar",
     point |-> weighted_sum(weight, a),
     variance |-> taylor_variance(linear_total(weight, a), psu, stratum)]

\* the ratio num / den of two weighted sums; 0/0 when the weights of the domain are 0
ratio_estimate_of(weight, a, b, psu, stratum, num, den) ==
    IF den = QInt(0)
    THEN [kind |-> "scalar", point |-> NaN, variance |-> NaN]
    ELSE [kind |-> "scalar",
          point |-> QDiv(num, den),
          variance |-> taylor_variance(linear_ratio(weight, a, b, QDiv(num, den), den),
                                       psu, stratum)]

ratio_estimate(weight, a, b, psu, stratum) ==
    ratio_estimate_of(weight, a, b, psu, stratum,
                      weighted_sum(weight, a), weighted_sum(weight, b))

\* proportion_estimate over the weight of the whole sample instead of the domain's
proportion_estimate_of_sample(y, weight, total_weight, psu, stratum) ==
    [kind |-> "levels",
     levels |-> [l \in Range(y) |->
                    ratio_estimate_of(weight, indicator(y, l), ones(Len(y)), psu, stratum,
                                      weighted_sum(weight, indicator(y, l)),
                                      QInt(total_weight))]]

\* the proportion of every observed level of y: the mean of its indicator
proportion_estimate(y, weight, total_weight, psu, stratum) ==
    [kind |-> "levels",
     levels |-> [l \in Range(y) |->
                    ratio_estimate(weight, indicator(y, l), ones(Len(y)), psu, stratum)]]

\* y put in the order of the strata, as a frame sorted by stratum holds it
sorted_by_stratum(y, stratum) ==
    IF stratum.given
    THEN [k \in 1..Len(y) |-> y[sort_values(stratum.arr)[k]]]
    ELSE y

\* domain_estimate on the values in stratum order and the weights in input order
domain_estimate_sorted(parameter, y, weight, total_weight, x, psu, stratum) ==
    IF parameter = "total"
    THEN total_estimate(weight, float_values(sorted_by_stratum(y, stratum)), psu, stratum)
    ELSE IF parameter = "mean"
    THEN ratio_estimate(weight, float_values(sorted_by_stratum(y, stratum)),
                        ones(Len(y)), psu, stratum)
    ELSE IF parameter = "ratio"
    THEN ratio_estimate(weight, float_values(sorted_by_stratum(y, stratum)), x, psu, stratum)
    ELSE proportion_estimate(sorted_by_stratum(y, stratum), weight, total_weight,
                             psu, stratum)

\* the point estimate and the linearized variance of one domain; weight is masked
\* to the domain, total_weight is the weight of the whole sample
domain_estimate(parameter, y, weight, total_weight, x, psu, stratum) ==
    IF parameter = "total"
    THEN total_estimate(weight, float_values(y), psu, stratum)
    ELSE IF parameter = "mean"
    THEN ratio_estimate(weight, float_values(y), ones(Len(y)), psu, stratum)
    ELSE IF parameter = "ratio"
    THEN ratio_estimate(weight, float_values(y), x, psu, stratum)
    ELSE proportion_estimate(y, weight, total_weight, psu, stratum)

\* a field of the estimate for one domain: F of the point and the variance, for the
\* statistic or for each of its levels
value_of(c, F(_)) ==
    IF c.kind = "levels"
    THEN ByLevel([l \in DOMAIN c.levels |-> F(c.levels[l])])
    ELSE Scalar(F(c))

\* the numbers that are not rational are kept as the expression that computes
\* them: the square root, the bounds of the t interval (on the logit scale for a
\* proportion) and the coefficient of variation
estimate_fields(parameter, core, df) ==
    [exc |-> "none",
     point_est |-> [d \in DOMAIN core |-> value_of(core[d], LAMBDA e : e.point)],
     variance |-> [d \in DOMAIN core |-> value_of(core[d], LAMBDA e : e.variance)],
     stderror |-> [d \in DOMAIN core |->
                      value_of(core[d], LAMBDA e : <<"sqrt", e.variance>>)],
     lower_ci |-> [d \in DOMAIN core |->
                      value_of(core[d], LAMBDA e :
                          <<"lower_ci", <<parameter = "proportion", e.point, e.variance, df>>>>)],
     upper_ci |-> [d \in DOMAIN core |->
                      value_of(core[d], LAMBDA e :
                          <<"upper_ci", <<parameter = "proportion", e.point, e.variance, df>>>>)],
     coef_var |-> [d \in DOMAIN core |->
                      value_of(core[d], LAMBDA e : <<"coef_var", <<e.variance, e.point>>>>)],
     degree_of_freedom |-> df]

\* the strata of exactly one PSU; the whole sample is the one stratum of an
\* unstratified design
single_psu_strata(psu, stratum) ==
    IF stratum.given
    THEN {h \in Range(stratum.arr) : Cardinality(Range(psu_of_stratum(psu, stratum.arr, h))) = 1}
    ELSE IF Cardinality(Range(psu)) = 1 THEN {1} ELSE {}

\* the number of PSUs minus the number of strata, or minus 1 when unstratified
taylor_degree_of_freedom(psu, stratum) ==
    IF stratum.given
    THEN Cardinality(stratum_psu_pairs(psu, stratum.arr)) - Cardinality(Range(stratum.arr))
    ELSE Cardinality(Range(psu)) - 1

NoEstimate ==
    [exc |-> "none", point_est |-> <<>>, variance |-> <<>>, stderror |-> <<>>,
     lower_ci |-> <<>>, upper_ci |-> <<>>, coef_var |-> <<>>, degree_of_freedom |-> 0]

\* estimate: a stratum of one PSU is an error; else every domain is estimated on
\* the whole design with the weights masked to it
estimate(parameter, y, samp_weight, x, stratum, psu, domain) ==
    IF single_psu_strata(psu, stratum) # {}
    THEN [NoEstimate EXCEPT !.exc = "SinglePSUError"]
    ELSE estimate_fields(parameter,
             [d \in domain_keys(domain) |->
                 domain_estimate(parameter, y, domain_weight(samp_weight, domain, d),
                                 Sum(samp_weight), x, psu, stratum)],
             taylor_degree_of_freedom(psu, stratum))

\* the responses of a sample of n units: constant, 0/1 and of up to MaxLevel + 1
\* levels, among them responses that never take the level 0
Responses(n) ==
    {[i \in 1..n |-> (((k * i) + 1) \div 2) % (l + 1)] : k \in 0..2, l \in MaxValue..MaxLevel}

\* the secondary variable of the ratio: x = 0.8 y + 0.5
secondary_value(y) == [i \in 1..Len(y) |-> QAdd(Q(4 * y[i], 5), Q(1, 2))]

\* the weights: all 1, or between 0 and MaxWeight with a 0 among them
TaylorWeights(n) ==
    {[i \in 1..n |-> ((k * i) + 1) % (MaxWeight + 1)] : k \in 0..MaxWeight}

\* no domain, or one of two partitions of the units into two domains; a label is
\* any string, the one that names the whole sample included
Domains(n) ==
    {None,
     Some([i \in 1..n |-> IF i % 2 = 1 THEN "a" ELSE "b"]),
     Some([i \in 1..n |-> IF i % 3 = 0 THEN Sentinel ELSE "a"])}

\* no generator is involved in the estimation
NoGenerator == [method |-> "none"]

InitTaylor ==
    /\ self = NoGenerator
    /\ np_random = 0
    /\ units = <<>>
    /\ call = NoCall
    /\ result = NoResult
    /\ est = NoEst
    /\ other = NoOther
    /\ twin = NoTwin

\* One estimator per statistic and per way of calling it, as the tests construct
\* them: each estimates from the same sample, with psu and with or without stratum.
Estimate ==
    /\ Len(units) >= 1
    /\ call.op = "none"
    /\ \E y \in Responses(Len(units)), samp_weight \in TaylorWeights(Len(units)),
          domain \in Domains(Len(units)) :
          /\ call' = [op |-> "estimate", y |-> y, samp_weight |-> samp_weight,
                      domain |-> domain]
          /\ est' = [kind |-> "taylor",
                     by |-> [parameter \in Parameters |-> [with_stratum \in BOOLEAN |->
                                estimate(parameter, y, samp_weight, secondary_value(y),
                                         IF with_stratum THEN Some(stratum_col) ELSE None,
                                         psu_col, domain)]]]
    /\ UNCHANGED <<self, np_random, units, result, other, twin>>

NextTaylor == AddUnit \/ Estimate

SpecTaylor == InitTaylor /\ [][NextTaylor]_vars

(* ---------------- the cross-tabulation of two variables ---------------- *)
\* CrossTabulation(parameter): the instance after construction
CrossTabulation(parameter) ==
    [parameter |-> parameter, point_est |-> <<>>, stats |-> <<>>, stderror |-> <<>>,
     lower_ci |-> <<>>, upper_ci |-> <<>>, design_info |-> <<>>,
     row_levels |-> <<>>, col_levels |-> <<>>]

\* the key of a cell: its row level and its column level joined by "_"
concatenate_series_to_str(row) == row[1] \o "_" \o row[2]

\* the levels of one of the two variables, in order of first appearance
unique_levels(rows, v) == drop_duplicates([i \in 1..Len(rows) |-> rows[i][v]])

\* the estimates of the observed cells: the total of 1 with the cells as domain
\* for a count, the proportion of every cell otherwise; no stratum and no psu are
\* given, so that every unit is a PSU of the one stratum
cell_estimates(parameter, rows, samp_weight) ==
    IF parameter = "count"
    THEN estimate("total", [i \in 1..Len(rows) |-> 1], samp_weight, <<>>, None,
                  [i \in 1..Len(rows) |-> i],
                  Some([i \in 1..Len(rows) |-> concatenate_series_to_str(rows[i])]))
    ELSE estimate("proportion",
                  [i \in 1..Len(rows) |-> concatenate_series_to_str(rows[i])],
                  samp_weight, <<>>, None, [i \in 1..Len(rows) |-> i], None)

\* a field of the estimate for one cell, and zero for a cell that was not observed
cell_value(parameter, field, key, zero) ==
    IF parameter = "count"
    THEN IF key \in DOMAIN field THEN field[key].value ELSE zero
    ELSE IF key \in DOMAIN field[Sentinel].value THEN field[Sentinel].value[key] ELSE zero

\* the rows of the latest call: for every row level a new dict over the column levels
cell_rows(parameter, field, row_levels, col_levels, zero) ==
    [r \in Range(row_levels) |->
        [c \in Range(col_levels) |->
            cell_value(parameter, field, concatenate_series_to_str(<<r, c>>), zero)]]

\* dict.update: the new keys are added, the keys present take the new value, and
\* the other keys of the dict stay
dict_update(d, new) == new @@ d

\* the test statistics are kept as the expression that computes them: they are a
\* function of the frame built from self.point_est and of the design
table_stats(frame, nrows, ncols, number_obs, dof) ==
    [frame |-> frame, df |-> (nrows - 1) * (ncols - 1), number_obs |-> number_obs,
     degree_of_freedom |-> dof]

\* the end of tabulate: the frame of self.point_est has one row for every key of
\* the dict; the sum of its rows is reshaped to nrows rows, which numpy refuses
\* when the dict holds another number of rows
tabulate_stats(tbl, row_levels, col_levels, number_obs, dof) ==
    IF Cardinality(DOMAIN tbl.point_est) # Len(row_levels)
    THEN [self |-> tbl, exc |-> "ValueError"]
    ELSE [self |-> [tbl EXCEPT
                       !.stats = table_stats(tbl.point_est, Len(row_levels), Len(col_levels),
                                             number_obs, dof),
                       !.row_levels = row_levels,
                       !.col_levels = col_levels,
                       !.design_info = [number_obs |-> number_obs, design_effect |-> 0]],
          exc |-> "none"]

\* the rows of the call are written into the four dicts of the instance
tabulate_cells(tbl, cells, row_levels, col_levels, number_obs) ==
    IF cells.exc # "none"
    THEN [self |-> tbl, exc |-> cells.exc]
    ELSE tabulate_stats(
             [tbl EXCEPT
                 !.point_est = dict_update(@, cell_rows(tbl.parameter, cells.point_est,
                                                        row_levels, col_levels, QInt(0))),
                 !.stderror = dict_update(@, cell_rows(tbl.parameter, cells.stderror,
                                                       row_levels, col_levels,
                                                       <<"sqrt", QInt(0)>>)),
                 !.lower_ci = dict_update(@, cell_rows(tbl.parameter, cells.lower_ci,
                                                       row_levels, col_levels,
                                                       <<"zero", <<>>>>)),
                 !.upper_ci = dict_update(@, cell_rows(tbl.parameter, cells.upper_ci,
                                                       row_levels, col_levels,
                                                       <<"zero", <<>>>>))],
             row_levels, col_levels, number_obs, cells.degree_of_freedom)

\* tabulate(vars, samp_weight): rows holds the two variables of every unit
tabulate(tbl, rows, samp_weight) ==
    tabulate_cells(tbl, cell_estimates(tbl.parameter, rows, samp_weight),
                   unique_levels(rows, 1), unique_levels(rows, 2), Len(rows))

\* samples of four units that fill a table of two rows and two columns; the row
\* levels are two of "a", "b", "c"
RowSamples ==
    {<<"a", "a", "b", "b">>, <<"b", "b", "a", "a">>, <<"a", "a", "c", "c">>,
     <<"c", "c", "b", "b">>}
ColSamples == {<<"x", "y", "x", "y">>, <<"y", "x", "x", "y">>}
TableSamples == {[i \in 1..4 |-> <<r[i], c[i]>>] : r \in RowSamples, c \in ColSamples}
TableWeights == {[i \in 1..4 |-> 1], [i \in 1..4 |-> 1 + (i % MaxWeight)]}

InitCrossTab ==
    /\ self \in {CrossTabulation(parameter) : parameter \in {"count", "proportion"}}
    /\ np_random = 0
    /\ units = <<>>
    /\ call = NoCall
    /\ result = NoResult
    /\ est = NoEst
    /\ other = NoOther
    /\ twin = [calls |-> 0, self |-> self]

\* one more call of tabulate on the instance; twin.self is a fresh instance given
\* the data of this call
Tabulate ==
    /\ twin.calls < MaxCalls
    /\ \E rows \in TableSamples, samp_weight \in TableWeights :
          \E t \in {tabulate(self, rows, samp_weight)} :
              /\ self' = t.self
              /\ result' = [NoResult EXCEPT !.exc = t.exc]
              /\ call' = [op |-> "tabulate", vars |-> rows, samp_weight |-> samp_weight]
              /\ twin' = [calls |-> twin.calls + 1,
                          self |-> tabulate(CrossTabulation(self.parameter), rows,
                                            samp_weight).self]
    /\ UNCHANGED <<np_random, units, est, other>>

SpecCrossTab == InitCrossTab /\ [][Tabulate]_vars

(* ---------------- the unit-level model ---------------- *)
\* UnitModel(method): the model after construction; an empty array is <<>> and
\* the numbers that are not set are None
UnitModel(method) ==
    [method |-> method, fitted |-> FALSE, area_s |-> <<>>, fixed_effects |-> <<>>,
     fe_std |-> <<>>, random_effects |-> <<>>, re_std |-> <<>>, re_std_cov |-> <<>>,
     error_var |-> <<>>, convergence |-> <<>>, goodness |-> <<>>,
     ybar_s |-> <<>>, Xbar_s |-> <<>>, gamma |-> <<>>, fpc |-> <<>>,
     random_effect |-> <<>>, y_predicted |-> <<>>]

\* np.insert(X, 0, 1, axis=1): the intercept in front of the covariate of every row
insert_intercept(X) == [i \in 1..Len(X) |-> <<1, X[i]>>]

\* the rows of area d
area_rows(area, d) == {i \in 1..Len(area) : area[i] = d}

\* the mean of column v over the rows of a set
rows_mean(rows, v) ==
    QDiv(QSum([k \in 1..Cardinality(rows) |-> QInt(v[SortedSeq(rows)[k]])]),
         QInt(Cardinality(rows)))

\* _area_stats with scale 1: weight is bound only when samp_weight is None, so the
\* first area of a weighted call reads an unbound local. Without weights the means
\* of y and of the columns of X in every area, and gamma, which is kept as the
\* expression of the variances of the fit and of delta_d = 1 / n_d
area_stats(model, arr1, arr2, area, samp_weight) ==
    IF samp_weight.given /\ np_unique(area) # <<>>
    THEN [exc |-> "UnboundLocalError", arr1_mean |-> <<>>, arr2_mean |-> <<>>,
          gamma |-> <<>>]
    ELSE [exc |-> "none",
          arr1_mean |-> [k \in 1..Len(np_unique(area)) |->
                            rows_mean(area_rows(area, np_unique(area)[k]), arr1)],
          arr2_mean |-> [k \in 1..Len(np_unique(area)) |->
                            [c \in 1..2 |->
                                rows_mean(area_rows(area, np_unique(area)[k]),
                                          [i \in 1..Len(arr2) |-> arr2[i][c]])]],
          gamma |-> [k \in 1..Len(np_unique(area)) |->
                        <<"gamma", <<model.re_std, model.error_var,
                           Q(1, Cardinality(area_rows(area, np_unique(area)[k])))>>>>]]

\* the attributes fit takes from the mixed model of statsmodels, which are kept
\* as the expression of the fit they come from
fit_mixed(model, basic_fit, area) ==
    [model EXCEPT !.area_s = np_unique(area),
                  !.error_var = <<"scale", basic_fit>>,
                  !.fixed_effects = <<"fe_params", basic_fit>>,
                  !.random_effects = <<"cov_re", basic_fit>>,
                  !.fe_std = <<"bse_fe", basic_fit>>,
                  !.re_std = <<"cov_re", basic_fit>>,
                  !.re_std_cov = <<"bse_re", basic_fit>>,
                  !.convergence = <<"converged", basic_fit>>,
                  !.goodness = <<"goodness", basic_fit>>]

\* the end of fit: the area statistics are stored and fitted is set, unless
\* _area_stats raised
fit_stats(model, stats) ==
    IF stats.exc # "none"
    THEN [self |-> model, exc |-> stats.exc]
    ELSE [self |-> [model EXCEPT !.ybar_s = stats.arr1_mean,
                                 !.Xbar_s = stats.arr2_mean,
                                 !.gamma = stats.gamma,
                                 !.fitted = TRUE],
          exc |-> "none"]

fit_area_stats(model, y, X, area, samp_weight) ==
    fit_stats(model, area_stats(model, y, X, area, samp_weight))

\* fit(y, X, area, samp_weight) with the intercept and scale 1
fit(model, y, X, area, samp_weight) ==
    fit_area_stats(
        fit_mixed(model, <<"MixedLM", <<y, insert_intercept(X), area, model.method = "REML">>>>,
                  area),
        y, insert_intercept(X), area, samp_weight)

\* numpy broadcasts two vectors of the same length, or one of them of length 1
broadcasts(m, k) == m = k \/ m = 1 \/ k = 1
broadcast_len(m, k) == IF m >= k THEN m ELSE k
element(a, i) == IF Len(a) = 1 THEN a[1] ELSE a[i]

\* the sum of the two terms of the prediction, element by element, kept as the
\* expression of its terms
predicted(X, fixed_effects, term) ==
    [i \in 1..broadcast_len(Len(X), Len(term)) |->
        <<"y_predicted", <<element(X, i), fixed_effects, element(term, i)>>>>]

\* the prediction once random_effect and fpc are written
predict_sum(model, X, term) ==
    IF ~broadcasts(Len(X), Len(term))
    THEN [self |-> model, exc |-> "ValueError"]
    ELSE [self |-> [model EXCEPT !.y_predicted = predicted(X, model.fixed_effects, term)],
          exc |-> "none"]

\* predict(X, area, samp_size, pop_size): raising a string is a TypeError
predict(model, X, samp_size, pop_size) ==
    IF ~model.fitted
    THEN [self |-> model, exc |-> "TypeError"]
    ELSE IF ~samp_size.given \/ ~pop_size.given
    THEN predict_sum(
             [model EXCEPT
                 !.random_effect = [k \in 1..Len(model.gamma) |->
                                       <<"random_effect", <<model.gamma[k], QInt(0)>>>>],
                 !.fpc = [i \in 1..Len(X) |-> QInt(0)]],
             insert_intercept(X),
             [k \in 1..Len(model.gamma) |->
                 <<"random_effect", <<model.gamma[k], QInt(0)>>>>])
    ELSE IF ~broadcasts(Len(samp_size.arr), Len(model.gamma))
    THEN [self |-> [model EXCEPT
                       !.random_effect = [k \in 1..Len(model.gamma) |->
                                             <<"random_effect", <<model.gamma[k], QInt(0)>>>>],
                       !.fpc = [i \in 1..Len(samp_size.arr) |->
                                   Q(samp_size.arr[i], pop_size.arr[i])]],
          exc |-> "ValueError"]
    ELSE predict_sum(
             [model EXCEPT
                 !.random_effect = [k \in 1..Len(model.gamma) |->
                                       <<"random_effect", <<model.gamma[k], QInt(0)>>>>],
                 !.fpc = [i \in 1..Len(samp_size.arr) |->
                             Q(samp_size.arr[i], pop_size.arr[i])]],
             insert_intercept(X),
             [k \in 1..broadcast_len(Len(samp_size.arr), Len(model.gamma)) |->
                 <<"random_effect",
                   <<element(model.gamma, k),
                     Q(element(samp_size.arr, k), element(pop_size.arr, k))>>>>])

\* the samples of the fit: 3 or 4 units in 1 or 2 areas, one covariate
UnitSamples ==
    {[y |-> [i \in 1..n |-> (k * i) % (MaxLevel + 1)],
      X |-> [i \in 1..n |-> i % 2],
      area |-> [i \in 1..n |-> 1 + (i % a)]] : n \in 3..MaxUnits, a \in 1..2, k \in 1..2}
\* no weights, or the weights 1 and 2 in turn
UnitWeights(n) == {None, Some([i \in 1..n |-> 1 + (i % MaxWeight)])}
\* the areas to predict for, one row each
PredictRows == {[i \in 1..m |-> i % 2] : m \in 1..2}
\* no sizes, or a sample of 1 in a population of 2 in every area
PredictSizes(m) == {None, Some([i \in 1..m |-> 1])}

InitUnitModel ==
    /\ self \in {UnitModel(method) : method \in {"REML", "ML"}}
    /\ np_random = 0
    /\ units = <<>>
    /\ call = NoCall
    /\ result = NoResult
    /\ est = NoEst
    /\ other = NoOther
    /\ twin = NoTwin

\* model.fit(y, X, area, samp_weight)
Fit ==
    /\ twin.calls < MaxCalls
    /\ \E sample \in UnitSamples :
          \E samp_weight \in UnitWeights(Len(sample.y)) :
              \E r \in {fit(self, sample.y, sample.X, sample.area, samp_weight)} :
                  /\ self' = r.self
                  /\ result' = [NoResult EXCEPT !.exc = r.exc]
                  /\ call' = [op |-> "fit", sample |-> sample, samp_weight |-> samp_weight]
    /\ twin' = [calls |-> twin.calls + 1]
    /\ UNCHANGED <<np_random, units, est, other>>

\* model.predict(X, area, samp_size, pop_size)
Predict ==
    /\ twin.calls < MaxCalls
    /\ \E X \in PredictRows :
          \E samp_size \in PredictSizes(Len(X)) :
              \E r \in {predict(self, X, samp_size,
                                IF samp_size.given THEN Some([i \in 1..Len(X) |-> 2])
                                ELSE None)} :
                  /\ self' = r.self
                  /\ result' = [NoResult EXCEPT !.exc = r.exc]
                  /\ call' = [op |-> "predict", X |-> X, samp_size |-> samp_size]
    /\ twin' = [calls |-> twin.calls + 1]
    /\ UNCHANGED <<np_random, units, est, other>>

NextUnitModel == Fit \/ Predict

SpecUnitModel == InitUnitModel /\ [][NextUnitModel]_vars

(* ======================= the claims ======================= *)
Called == call.op = "replicate"
Returned == Called /\ result.exc = "none"

\* the call treated the sample as stratified
Stratified == self.stratification /\ call.stratum_given

\* a unit's PSU as the design identifies it: with its stratum when stratified
DesignPsu(i) == IF Stratified THEN <<units[i].stratum, units[i].psu>> ELSE <<units[i].psu>>
DesignPsus == {DesignPsu(i) : i \in 1..Len(units)}
SameStratum(a, b) == Stratified => a[1] = b[1]
\* n_h: the PSUs of the stratum of PSU a (of the whole sample when unstratified)
StratumSize(a) == Cardinality({b \in DesignPsus : SameStratum(a, b)})

\* the PSUs of stratum s of the sample
PsusOfStratum(s) == {units[i].psu : i \in {j \in 1..Len(units) : units[j].stratum = s}}

IsPow2(n) == n >= 1 /\ Pow2(ILog2(n)) = n

\* C1: after BRR replicate on H strata of two PSUs each, number_reps is at least H,
\* a multiple of 4 when it is at most 28 and a power of two when it is above 28.
C1_BrrNumberReps ==
    (Called /\ self.method = "brr") =>
        /\ self.number_reps >= Len(units) \div 2
        /\ (self.number_reps <= 28 => self.number_reps % 4 = 0)
        /\ (self.number_reps > 28 => IsPow2(self.number_reps))

\* C2: after BRR replicate with Fay coefficient f and R replicates, rep_coefs holds
\* R entries, each 1 / (R * (1 - f)^2).
C2_BrrRepCoefs ==
    (Returned /\ self.method = "brr") =>
        /\ Len(self.rep_coefs) = self.number_reps
        /\ \A g \in 1..Len(self.rep_coefs) :
              self.rep_coefs[g] =
                  QDiv(QInt(1), QMul(QInt(self.number_reps),
                                     QSq(QSub(QInt(1), self.fay_coef))))

\* C3: a bootstrap generator constructed with number_reps = R holds R rep_coefs, each
\* 1/R, right after construction and after every replicate call.
C3_BootstrapRepCoefs ==
    self.method = "bootstrap" =>
        /\ Len(self.rep_coefs) = self.number_reps
        /\ \A g \in 1..Len(self.rep_coefs) : self.rep_coefs[g] = Q(1, self.number_reps)

\* C4: stratified BRR replicate raises AssertionError whenever some stratum has a
\* number of PSUs other than 2.
C4_BrrTwoPsusPerStratum ==
    (Called /\ self.method = "brr" /\ Stratified
        /\ \E i \in 1..Len(units) : Cardinality(PsusOfStratum(units[i].stratum)) # 2)
    => result.exc = "AssertionError"

\* the row of the coefficient matrix that belongs to unit i's own PSU
CoefsOfUnit(i) ==
    result.coefs[CHOOSE p \in 1..Len(result.psus_ids) :
                    LET key == result.psus_ids[p]
                    IN  /\ key[Len(key)] = units[i].psu
                        /\ Stratified => key[1] = units[i].stratum]

\* C5: every unit has exactly one row in the returned table, and in that row replicate
\* column r is samp_weight[i] times the coefficient of the unit's own PSU for
\* replicate r, or that coefficient itself when rep_coefs is True.
C5_TableRows ==
    Returned =>
        /\ Len(result.table) = Len(units)
        /\ {result.table[k].idx : k \in 1..Len(result.table)} = 1..Len(units)
        /\ \A k \in 1..Len(result.table) :
              LET i == result.table[k].idx
                  c == CoefsOfUnit(i)
              IN  /\ Len(result.table[k].reps) = Len(c)
                  /\ \A r \in 1..Len(c) :
                        result.table[k].reps[r] =
                            IF call.rep_coefs THEN c[r]
                            ELSE QMul(QInt(call.samp_weight[i]), c[r])

\* C6: after replicate, degree_of_freedom is the number of PSUs minus the number of
\* strata for a stratified design and the number of PSUs minus 1 for an unstratified
\* one, a PSU being a (stratum, PSU label) pair.
C6_DegreeOfFreedom ==
    Returned =>
        self.degree_of_freedom =
            IF Stratified
            THEN Cardinality(DesignPsus) - Cardinality({units[i].stratum : i \in 1..Len(units)})
            ELSE Cardinality(DesignPsus) - 1

\* the jackknife coefficient of PSU a in the replicate that deletes PSU b
JackknifeCoef(a, b) ==
    IF a = b THEN QInt(0)
    ELSE IF SameStratum(a, b) THEN Q(StratumSize(b), StratumSize(b) - 1)
    ELSE QInt(1)

\* C9: jackknife replicate makes one replicate per (stratum, PSU) pair, each PSU is
\* the deleted PSU of exactly one replicate, and in the replicate that deletes PSU b
\* the coefficient is 0 for b, n_h/(n_h-1) for the other PSUs of b's stratum and 1
\* for the PSUs of the other strata.
C9_JackknifeCoefs ==
    (Returned /\ self.method = "jackknife") =>
        LET ids == result.psus_ids
            R == Cardinality(DesignPsus)
        IN  /\ self.number_reps = R
            /\ Len(ids) = R
            /\ Range(ids) = DesignPsus
            /\ Len(result.coefs) = R
            /\ \A p \in 1..R :
                  /\ Len(result.coefs[p]) = R
                  /\ \A g \in 1..R : result.coefs[p][g] = JackknifeCoef(ids[p], ids[g])
                  /\ Cardinality({g \in 1..R : result.coefs[g][p] = QInt(0)}) = 1
            /\ \A k \in 1..Len(result.table) :
                  /\ result.table[k].key = DesignPsu(result.table[k].idx)
                  /\ Len(result.table[k].reps) = R
                  /\ call.rep_coefs =>
                        \A g \in 1..R :
                            result.table[k].reps[g] = JackknifeCoef(result.table[k].key, ids[g])

\* C9's case: a stratified jackknife of two strata with two PSUs each returned its
\* raw coefficients
C9_Witness ==
    /\ Returned /\ self.method = "jackknife" /\ Stratified /\ call.rep_coefs
    /\ Cardinality(DesignPsus) = 4
    /\ \A a \in DesignPsus : StratumSize(a) = 2

\* C10: after a jackknife replicate, rep_coefs has one entry per replicate and entry
\* g is (n_h - 1)/n_h for the stratum of the PSU that replicate g deletes.
C10_JackknifeRepCoefs ==
    (Returned /\ self.method = "jackknife") =>
        /\ Len(self.rep_coefs) = self.number_reps
        /\ Len(self.rep_coefs) = Len(result.psus_ids)
        /\ \A g \in 1..Len(self.rep_coefs) :
              self.rep_coefs[g] = Q(StratumSize(result.psus_ids[g]) - 1,
                                    StratumSize(result.psus_ids[g]))

\* C10's case: a stratified jackknife of four replicates whose strata have two PSUs,
\* so that (n_h - 1)/n_h = 1/2 is not (number_reps - 1)/number_reps = 3/4
C10_Witness ==
    /\ Returned /\ self.method = "jackknife" /\ Stratified
    /\ self.number_reps = 4
    /\ self.rep_coefs[1] = Q(1, 2)

\* the sum of the sampling weights of the units of PSU a
PsuWeight(a) ==
    Sum([i \in 1..Len(units) |-> IF DesignPsu(i) = a THEN call.samp_weight[i] ELSE 0])

Estimated == est.kind = "variance"

KnownMethod == self.method \in {"jackknife", "brr", "bootstrap"}

\* C13: replicate on a generator whose method is none of 'jackknife', 'brr' and
\* 'bootstrap' fails with a ValueError.
C13_UnknownMethodValueError ==
    (Called /\ ~KnownMethod) => result.exc = "ValueError"

\* the Fay coefficient is outside [0, 1)
FayOutside == self.fay_coef[1] < 0 \/ self.fay_coef[1] >= self.fay_coef[2]

\* the call passes the tests replicate makes before it turns to the method: a
\* stratified generator got its stratum, an unstratified BRR got PSUs to pair
DesignAccepted ==
    /\ self.stratification => call.stratum_given
    /\ (~Stratified /\ self.method = "brr") => Cardinality(DesignPsus) % 2 = 0

\* C14 as stated: replicate on a BRR generator whose Fay coefficient is outside
\* [0, 1) raises ValueError and returns no weight table, whatever the other arguments.
C14_FayOutsideValueError ==
    (Called /\ self.method = "brr" /\ FayOutside) =>
        (result.exc = "ValueError" /\ result.table = <<>>)

\* C14, amended: replicate on a BRR generator whose Fay coefficient is outside
\* [0, 1) raises an error and returns no weight table; the error is a ValueError
\* when the call passes the tests of the design that come first (the stratum of a
\* stratified generator is given, the PSUs of an unstratified one are even in number).
C14_FayOutsideRaises ==
    (Called /\ self.method = "brr" /\ FayOutside) =>
        /\ result.exc # "none"
        /\ result.table = <<>>
        /\ DesignAccepted => result.exc = "ValueError"

\* C14's case: a negative Fay coefficient and a design of two strata that BRR
\* would accept
C14_Witness ==
    /\ Called /\ self.method = "brr" /\ Stratified
    /\ self.fay_coef = Q(-1, 2)
    /\ Cardinality(DesignPsus) = 4
    /\ \A a \in DesignPsus : StratumSize(a) = 2
    /\ result.exc = "ValueError"

\* the call ran the bootstrap: replicate, or _boot_replicates itself
BootCalled == call.op \in {"replicate", "_boot_replicates"} /\ self.method = "bootstrap"
\* the gap of the call; replicate leaves it at its default
BootGap == IF call.op = "_boot_replicates" THEN call.size_gap ELSE 1
\* the numbers of PSUs the call resamples from: of each stratum, or of the sample
BootPsuCounts ==
    IF (IF call.op = "_boot_replicates" THEN call.stratum_given ELSE Stratified)
    THEN {Cardinality(PsusOfStratum(units[i].stratum)) : i \in 1..Len(units)}
    ELSE {Cardinality(Range(psu_col))}

\* C15: the bootstrap raises AssertionError whenever the number of PSUs of the
\* sample (unstratified) or of some stratum (stratified) minus the size gap is at
\* most 0, and the call yields no coefficients.
C15_BootstrapGapRaises ==
    (BootCalled /\ \E n \in BootPsuCounts : n - BootGap <= 0) =>
        /\ result.exc = "AssertionError"
        /\ result.coefs = <<>>
        /\ result.table = <<>>

\* C15's case: a gap of 2 and a stratum of three PSUs, which is resampled, before a
\* stratum of one PSU
C15_Witness ==
    /\ call.op = "_boot_replicates" /\ call.stratum_given /\ call.size_gap = 2
    /\ Cardinality(PsusOfStratum(1)) = 3
    /\ Cardinality(PsusOfStratum(2)) = 1
    /\ result.exc = "AssertionError"

\* C16: for every method, a replicate call on a generator with stratification=True
\* and stratum=None raises an error at once (no table, nothing replicated, no random
\* number drawn), and a replicate call on a generator with stratification=False that
\* is given a stratum does exactly what the same call with stratum=None does.
C16_StratumArgument ==
    [][(call.op = "none" /\ call'.op = "replicate") =>
          /\ (self.stratification /\ ~call'.stratum_given) =>
                 /\ result'.exc # "none"
                 /\ result'.table = <<>>
                 /\ np_random' = np_random
                 /\ self'.rep_coefs = self.rep_coefs
                 /\ self'.number_reps = self.number_reps
          /\ (~self.stratification /\ call'.stratum_given) =>
                 \E r \in {replicate(self, np_random, TRUE, call'.samp_weight, psu_col,
                                     None, call'.rep_coefs)} :
                     /\ self' = r.self
                     /\ np_random' = r.rng
                     /\ result' = ResultOf(r)]_vars

\* C16's case: an unstratified generator was given the strata of a sample of two
\* strata and returned a table
C16_Witness ==
    /\ Returned /\ ~self.stratification /\ call.stratum_given
    /\ Cardinality({units[i].stratum : i \in 1..Len(units)}) = 2

\* both runs have made the same replicate calls, at least one
BothCalled == twin.calls >= 1

\* C11: a bootstrap generator's replicate call returns what it returns in a run
\* where the generator is alone, whatever other ReplicateWeight instance the process
\* constructs or uses, and whenever it does so.
C11_OwnRngState ==
    BothCalled => result = twin.result

\* C12: two runs that construct a bootstrap generator with the same random_seed
\* and make the same replicate calls get the same output from every call, and leave
\* the generator with the same attributes.
C12_ReproducibleFromSeed ==
    (BothCalled /\ self.random_seed # <<>>) =>
        /\ result = twin.result
        /\ self = twin.self

\* C12's case: the seeded generators made two calls and the last one returned
\* replicates that differ between the PSUs
C12_Witness ==
    /\ twin.calls = 2 /\ self.random_seed # <<>>
    /\ Returned
    /\ \E p, q \in 1..Len(result.coefs) : result.coefs[p] # result.coefs[q]


(* ---------------- the Taylor estimator ---------------- *)
TaylorEstimated == est.kind = "taylor" /\ call.op = "estimate"

\* the estimate of a statistic, with or without the stratum array
EstimateOf(parameter, with_stratum) == est.by[parameter][with_stratum]

\* the weight of the units of domain d in the call
DomainTotalWeight(d) == Sum(domain_weight(call.samp_weight, call.domain, d))

\* the values of a mapping from level to number are numbers and add up to 1
LevelsSumToOne(by_level) ==
    /\ \A l \in DOMAIN by_level : by_level[l] # NaN
    /\ QSum([k \in 1..Cardinality(DOMAIN by_level) |->
                by_level[SortedSeq(DOMAIN by_level)[k]]]) = QInt(1)

\* C17 as stated: whenever the weights of the sample add up to more than 0, the
\* proportions of the observed levels add up to 1 within every domain.
C17_ProportionsSumToOne ==
    (TaylorEstimated /\ Sum(call.samp_weight) > 0) =>
        \A with_stratum \in BOOLEAN :
            EstimateOf("proportion", with_stratum).exc = "none" =>
                \A d \in DOMAIN EstimateOf("proportion", with_stratum).point_est :
                    LevelsSumToOne(EstimateOf("proportion", with_stratum).point_est[d].value)

\* C17, amended: within every domain whose units have a positive total weight, the
\* proportions of the observed levels of the response add up to 1.
C17_ProportionsSumToOneInDomain ==
    TaylorEstimated =>
        \A with_stratum \in BOOLEAN :
            EstimateOf("proportion", with_stratum).exc = "none" =>
                \A d \in DOMAIN EstimateOf("proportion", with_stratum).point_est :
                    DomainTotalWeight(d) > 0 =>
                        LevelsSumToOne(EstimateOf("proportion", with_stratum).point_est[d].value)

\* proportions of three levels in two domains of unequal positive weight
C17_Witness ==
    /\ TaylorEstimated
    /\ call.domain.given
    /\ Cardinality(Range(call.y)) = 3
    /\ EstimateOf("proportion", TRUE).exc = "none"
    /\ \A d \in Range(call.domain.arr) : DomainTotalWeight(d) > 0
    /\ \E d, e \in Range(call.domain.arr) : DomainTotalWeight(d) # DomainTotalWeight(e)


\* the six fields of an estimate
ResultFields(e) ==
    <<e.point_est, e.variance, e.stderror, e.lower_ci, e.upper_ci, e.coef_var>>

\* for a proportion a mapping from the observed levels to scalars, else a scalar
ValueShape(parameter, v) ==
    IF parameter = "proportion"
    THEN v.kind = "levels" /\ DOMAIN v.value = Range(call.y)
    ELSE v.kind = "scalar"

EstimateReturned(e) == e.exc = "none"

BinaryAsMean(proportion, mean, d) ==
    /\ proportion.point_est[d].value[1] = mean.point_est[d].value
    /\ proportion.point_est[d].value[0] = QSub(QInt(1), mean.point_est[d].value)
    /\ proportion.variance[d].value[0] = proportion.variance[d].value[1]
    /\ proportion.variance[d].value[1] = mean.variance[d].value

\* C20: for a response whose levels are exactly 0 and 1, under the same design
\* (the same call, stratum array included) and in every domain that has an
\* estimate, the proportion of level 1 is the mean of the response, the proportion
\* of level 0 is one minus it, and the linearized variances of the two levels are
\* equal to each other and to the variance of the mean.
C20_BinaryProportionIsMean ==
    (TaylorEstimated /\ Range(call.y) = {0, 1}) =>
        \A with_stratum \in BOOLEAN :
            (/\ EstimateReturned(EstimateOf("proportion", with_stratum))
             /\ EstimateReturned(EstimateOf("mean", with_stratum))) =>
                \A d \in DOMAIN EstimateOf("mean", with_stratum).point_est :
                    DomainTotalWeight(d) > 0 =>
                        BinaryAsMean(EstimateOf("proportion", with_stratum),
                                     EstimateOf("mean", with_stratum), d)

\* a 0/1 response under unequal weights whose mean is strictly between 0 and 1 and
\* has a positive variance, estimated with the stratum array
C20_Witness ==
    /\ TaylorEstimated
    /\ Range(call.y) = {0, 1}
    /\ Cardinality(Range(call.samp_weight)) >= 2
    /\ EstimateReturned(EstimateOf("proportion", TRUE))
    /\ EstimateReturned(EstimateOf("mean", TRUE))
    /\ \E d \in DOMAIN EstimateOf("mean", TRUE).point_est :
          /\ DomainTotalWeight(d) > 0
          /\ EstimateOf("mean", TRUE).point_est[d].value \notin {QInt(0), QInt(1)}
          /\ EstimateOf("mean", TRUE).variance[d].value # QInt(0)
          /\ EstimateOf("proportion", TRUE).variance[d].value[0] # QInt(0)


(* ---------------- BRR columns ---------------- *)
\* the coefficients of the first PSU of stratum h over the replicates: the
\* stratum's column of the Hadamard matrix, written in fay_coef and 2 - fay_coef
StratumColumn(h) == result.coefs[2 * h - 1]

\* C21: BRR replicate on H >= 1 strata of two PSUs each returns coefficients for all
\* 2H PSUs, and the strata have columns of the Hadamard matrix that are not
\* constant and differ from stratum to stratum.
C21_BrrBalancedColumns ==
    (Called /\ self.method = "brr") =>
        /\ result.exc = "none"
        /\ Len(result.coefs) = Len(units)
        /\ \A h \in 1..(Len(units) \div 2) :
              /\ \E r1, r2 \in 1..Len(StratumColumn(h)) :
                    StratumColumn(h)[r1] # StratumColumn(h)[r2]
              /\ \A k \in 1..(Len(units) \div 2) :
                    k # h => StratumColumn(k) # StratumColumn(h)


\* the entry of the Hadamard matrix for replicate r and stratum h
StratumEntry(r, h) == hadamard(self.number_reps, r - 1, h)

\* C22: in every BRR replicate r and every stratum h, the first PSU has the
\* coefficient fay_coef when the Hadamard entry of (r, h) is 1 and 2 - fay_coef when
\* it is -1, the second PSU has the other value, and so the two add up to 2.
C22_BrrPairCoefs ==
    (Returned /\ self.method = "brr") =>
        \A h \in 1..(Len(result.coefs) \div 2), r \in 1..self.number_reps :
            /\ StratumEntry(r, h) \in {1, -1}
            /\ result.coefs[2 * h - 1][r] =
                  IF StratumEntry(r, h) = 1 THEN self.fay_coef
                  ELSE QSub(QInt(2), self.fay_coef)
            /\ result.coefs[2 * h][r] =
                  IF StratumEntry(r, h) = 1 THEN QSub(QInt(2), self.fay_coef)
                  ELSE self.fay_coef
            /\ QAdd(result.coefs[2 * h - 1][r], result.coefs[2 * h][r]) = QInt(2)
            /\ {result.coefs[2 * h - 1][r], result.coefs[2 * h][r]}
                  = {self.fay_coef, QSub(QInt(2), self.fay_coef)}

\* Fay's method with coefficient 1/2 on 11 strata: 12 replicates, and a stratum
\* whose entry is 1 in one replicate and -1 in another
C22_Witness ==
    /\ Returned /\ self.method = "brr"
    /\ self.fay_coef = Q(1, 2)
    /\ Len(result.coefs) = 22
    /\ self.number_reps = 12
    /\ \E h \in 1..11, r1, r2 \in 1..12 :
          StratumEntry(r1, h) = 1 /\ StratumEntry(r2, h) = -1


(* ---------------- bootstrap coefficients ---------------- *)
\* the call resamples within strata
BootStratified == IF call.op = "_boot_replicates" THEN call.stratum_given ELSE Stratified
\* the sampling rate of the call; replicate leaves it at its default
BootSampRate == IF call.op = "_boot_replicates" THEN call.samp_rate ELSE QInt(0)

\* the strata of the sample in order, and the number of PSUs of each; the whole
\* sample is the one block of an unstratified call
BootStrata == SortedSeq({units[i].stratum : i \in 1..Len(units)})
BootBlocks ==
    IF BootStratified
    THEN [k \in 1..Len(BootStrata) |-> Cardinality(PsusOfStratum(BootStrata[k]))]
    ELSE <<Cardinality(Range(psu_col))>>

\* the rows of the coefficient matrix that hold block k
BlockRows(k) ==
    {p \in 1..Len(result.coefs) :
        Sum(SubSeq(BootBlocks, 1, k - 1)) < p /\ p <= Sum(SubSeq(BootBlocks, 1, k))}

\* the m for which c = 1 - q + q * (n / (n - g)) * m
DrawCount(c, n, g, q) == QDiv(QSub(c, QSub(QInt(1), q)), QMul(q, Q(n, n - g)))

\* the draws of replicate rep in a block of rows: every row has a whole number m >= 0
\* of them and they add up to n - g
DrawsOfBlock(rows, rep, n, g, q) ==
    /\ \A p \in rows :
          /\ DrawCount(result.coefs[p][rep], n, g, q)[2] = 1
          /\ DrawCount(result.coefs[p][rep], n, g, q)[1] >= 0
    /\ Sum([j \in 1..Cardinality(rows) |->
              DrawCount(result.coefs[SortedSeq(rows)[j]][rep], n, g, q)[1]]) = n - g

\* C23: when the bootstrap returns, every block of n PSUs (a stratum, or the whole
\* sample) has a gap g < n, and in every replicate the coefficient of each of its
\* PSUs is 1 - q + q * (n / (n - g)) * m with q^2 = (1 - s)(n - g) / (n - 1), for
\* whole numbers m >= 0 that add up to n - g over the block: the n - g draws.
C23_BootstrapCoefs ==
    (BootCalled /\ result.exc = "none") =>
        /\ Len(result.coefs) = Sum(BootBlocks)
        /\ \A k \in 1..Len(BootBlocks), rep \in 1..self.number_reps :
              /\ BootGap < BootBlocks[k]
              /\ \E q \in {boot_ratio_sqrt(BootBlocks[k], BootSampRate,
                                           BootBlocks[k] - BootGap)} :
                    /\ QSq(q) = QDiv(QMul(QSub(QInt(1), BootSampRate),
                                          QInt(BootBlocks[k] - BootGap)),
                                     QInt(BootBlocks[k] - 1))
                    /\ DrawsOfBlock(BlockRows(k), rep, BootBlocks[k], BootGap, q)

\* three PSUs resampled with a gap of 2 and a sampling rate of 1/2 (q = 1/2), and a
\* replicate that leaves a PSU out
C23_Witness ==
    /\ call.op = "_boot_replicates" /\ result.exc = "none"
    /\ call.size_gap = 2 /\ call.samp_rate = Q(1, 2)
    /\ 3 \in BootPsuCounts
    /\ \E p \in 1..Len(result.coefs), rep \in 1..self.number_reps :
          result.coefs[p][rep] = Q(1, 2)


(* ---------------- coefficients of a stratum ---------------- *)
\* the rows of the coefficient matrix whose PSU is in the stratum of row p (all
\* rows when unstratified)
RowsOfStratum(p) ==
    {j \in 1..Len(result.psus_ids) :
        Stratified => result.psus_ids[j][1] = result.psus_ids[p][1]}

\* the sum over a set of rows of the coefficients of replicate r
CoefSum(rows, r) ==
    QSum([j \in 1..Cardinality(rows) |-> result.coefs[SortedSeq(rows)[j]][r]])

\* C24: in every replicate the jackknife or the bootstrap returns, the coefficients
\* of the PSUs of each stratum (of the whole sample when unstratified) add up to
\* the number of PSUs of that stratum.
C24_StratumCoefsSum ==
    (Returned /\ self.method \in {"jackknife", "bootstrap"}) =>
        /\ Len(result.coefs) = Len(result.psus_ids)
        /\ \A p \in 1..Len(result.coefs) : \A r \in 1..Len(result.coefs[p]) :
              CoefSum(RowsOfStratum(p), r) = QInt(Cardinality(RowsOfStratum(p)))

\* two strata of two PSUs each, and a replicate in which a PSU has the coefficient 0
C24_Witness ==
    /\ Returned /\ self.method \in {"jackknife", "bootstrap"}
    /\ Stratified
    /\ Len(result.psus_ids) = 4
    /\ \A p \in 1..4 : Cardinality(RowsOfStratum(p)) = 2
    /\ \E p \in 1..4 : \E r \in 1..Len(result.coefs[p]) : result.coefs[p][r] = QInt(0)


(* ---------------- one instance, call after call ---------------- *)
\* C25: for the jackknife and BRR, after any sequence of replicate calls on an
\* instance, a call that returns on a freshly constructed instance returns the same
\* table on this one and leaves the same number_reps, rep_coefs and
\* degree_of_freedom.
C25_IndependentOfHistory ==
    (twin.calls >= 1 /\ self.method \in {"jackknife", "brr"} /\ twin.result.exc = "none") =>
        /\ result = twin.result
        /\ self.number_reps = twin.self.number_reps
        /\ self.rep_coefs = twin.self.rep_coefs
        /\ self.degree_of_freedom = twin.self.degree_of_freedom


(* ---------------- a call that fails ---------------- *)
\* C26: a replicate call that fails one of replicate's own tests (the
\* AssertionError of a stratified generator without stratum, of the BRR PSU count,
\* of the bootstrap size gap or of an unknown method, the ValueError of the Fay
\* coefficient) leaves degree_of_freedom, number_reps, number_psus, number_strata
\* and rep_coefs of the generator as they were before the call.
C26_FailureLeavesAttributes ==
    [][(/\ call.op = "none" /\ call'.op = "replicate"
        /\ result'.exc \in {"AssertionError", "ValueError"}) =>
          /\ self'.degree_of_freedom = self.degree_of_freedom
          /\ self'.number_reps = self.number_reps
          /\ self'.number_psus = self.number_psus
          /\ self'.number_strata = self.number_strata
          /\ self'.rep_coefs = self.rep_coefs]_vars


(* ---------------- the jackknife on a stratum of one PSU ---------------- *)
\* some stratum of the design (the whole sample when unstratified) has one PSU
SinglePsuDesign == \E a \in DesignPsus : StratumSize(a) = 1

\* C27: jackknife replicate on a design in which some stratum, or the whole
\* unstratified sample, has exactly one PSU raises an error and returns no table
\* and no coefficients.
C27_JackknifeSinglePsuRaises ==
    (Called /\ self.method = "jackknife" /\ SinglePsuDesign) =>
        /\ result.exc # "none"
        /\ result.table = <<>>
        /\ result.coefs = <<>>

\* a stratified call on a stratum of two PSUs and a stratum of one
C27_Witness ==
    /\ Called /\ self.method = "jackknife" /\ Stratified
    /\ \E a, b \in DesignPsus : StratumSize(a) = 1 /\ StratumSize(b) = 2
    /\ result.exc = "ZeroDivisionError"

\* C28: after any sequence of tabulate calls on one instance, point_est, stderror,
\* lower_ci and upper_ci hold exactly the row levels and the column levels of the
\* latest call, and the table and the statistics are those of a fresh instance
\* given the data of that call.
Tabulated == call.op = "tabulate"
LatestLevels(v) == Range(unique_levels(call.vars, v))
HoldsLatestLevels(d) ==
    /\ DOMAIN d = LatestLevels(1)
    /\ \A r \in DOMAIN d : DOMAIN d[r] = LatestLevels(2)
C28_LatestCallOnly ==
    Tabulated =>
        /\ HoldsLatestLevels(self.point_est)
        /\ HoldsLatestLevels(self.stderror)
        /\ HoldsLatestLevels(self.lower_ci)
        /\ HoldsLatestLevels(self.upper_ci)
        /\ self.point_est = twin.self.point_est
        /\ self.stats = twin.self.stats

\* C29: without a rep_prefix the replicate columns are named with the default
\* prefix of the method followed by 1..R ("_jk_wgt_" for the jackknife,
\* "_boot_wgt_" for the bootstrap, "_brr_wgt_" for BRR with fay_coef = 0 and
\* "_fay_wgt_" for BRR with fay_coef > 0); a prefix of the caller is used verbatim.
DefaultPrefix ==
    IF self.method = "jackknife" THEN "_jk_wgt_"
    ELSE IF self.method = "bootstrap" THEN "_boot_wgt_"
    ELSE IF self.fay_coef = Q(0, 1) THEN "_brr_wgt_"
    ELSE "_fay_wgt_"
ColumnsNamed(prefix) ==
    result.columns = [x \in 1..self.number_reps |-> prefix \o str(x)]
C29_ColumnNames ==
    Returned =>
        IF call.rep_prefix.given
        THEN ColumnsNamed(call.rep_prefix.arr)
        ELSE ColumnsNamed(DefaultPrefix)

\* C30: UnitModel follows a fit-then-predict protocol. fitted is False after
\* construction; a fit, with or without a samp_weight, completes without error and
\* sets fitted, and nothing else sets it; a predict while fitted is False fails
\* and leaves y_predicted and fpc as they are; a predict after a successful fit
\* sets y_predicted.
FitCompletes == call'.op = "fit" => (result'.exc = "none" /\ self'.fitted)
FittedOnlyByFit ==
    (self'.fitted /\ ~self.fitted) => (call'.op = "fit" /\ result'.exc = "none")
PredictNeedsFit ==
    (call'.op = "predict" /\ ~self.fitted) =>
        /\ result'.exc # "none"
        /\ self'.y_predicted = self.y_predicted
        /\ self'.fpc = self.fpc
PredictAfterFit ==
    (call'.op = "predict" /\ self.fitted /\ Len(call'.X) = Len(self.area_s)) =>
        (result'.exc = "none" /\ self'.y_predicted # <<>>)
====
